---- MODULE Spec2Model ----
(***************************************************************************)
(* State-machine model of the stores of node-cache:                        *)
(*   LRUCache          (src/library/LRUCache.ts)                           *)
(*   LRUCacheWithTTL   (src/library/LRUCacheWithTTL.ts)                    *)
(*   MemoryCacheStore  (src/library/memory-cache-store.ts)                 *)
(*   SQLiteCacheStore  (src/library/sqlite-cache-store.ts)                 *)
(*   RedisCacheStore   (src/library/redis-cache-store.ts)                  *)
(* Every store owns one LRUCache, whose Map is the variable `cache`: a     *)
(* sequence of entries in Map iteration order (head = first inserted).     *)
(* JavaScript values are modelled as records: a primitive is               *)
(* [prim |-> n] (n = 0 stands for the falsy primitives 0, '', false, null),*)
(* undefined is [undef |-> TRUE], every other record is an object.         *)
(***************************************************************************)
EXTENDS Integers, Sequences, FiniteSets, TLC

VARIABLES
  kind,            \* which class the instance is: "lru", "ttl", "mem", "sql", "redis"
  cache,           \* LRUCache.#cache, Map iteration order
  lruMaxSize,      \* LRUCache.#maxSize
  call,            \* the last call made on the instance (none after construction)
  ret,             \* what that call returned
  pristine,        \* history: every call so far was a set of a key never set before
  insOrder,        \* history: the keys set so far, in order, while pristine
  now,             \* performance.now()
  ttl,             \* LRUCacheWithTTL.#ttl (default ttl) or NoTtl
  timerOn,         \* LRUCacheWithTTL.#timer is armed
  timerDue,        \* the time at which #timer fires next
  written,         \* history: per stored key, when and with which ttl it was last set
  memSize,         \* MemoryCacheStore.#size
  memMaxCount,     \* MemoryCacheStore.#maxCount
  memMaxSize,      \* MemoryCacheStore.#maxSize
  memMaxEntrySize, \* MemoryCacheStore.#maxEntrySize
  rows,            \* SQLiteCacheStore: the rows of table cache_v1
  rowSeq,          \* SQLiteCacheStore: the AUTOINCREMENT sequence of cache_v1.id
  sqlMaxCount,     \* SQLiteCacheStore.#maxCount
  sqlMaxEntrySize, \* SQLiteCacheStore.#maxEntrySize
  closed,          \* RedisCacheStore.#closed
  remote,          \* the keyspace of the Redis server: key name -> stored record
  uuid,            \* the number of crypto.randomUUID() values drawn so far
  tracked,         \* server side: key names read on #redis since their last invalidation
  inval,           \* invalidation messages on their way to #redisSubscribe
  pc,              \* RedisCacheStore: the async call in flight and its await point
  bg,              \* RedisCacheStore: un-awaited commands not yet run by the server
  tracking,        \* RedisCacheStore: #trackingCache exists (options.tracking !== false)
  maxEntryOpt,     \* RedisCacheStore: options.maxEntrySize
  quits,           \* number of quit() issued on #redis and on #redisSubscribe
  errs,            \* number of #errorCallback calls made by the last call
  lapsed,          \* history: keys whose last set has outlived its ttl
  keyPrefix,       \* RedisCacheStore.#keyPrefix
  conn             \* SQLiteConnector._instance, the database files, and the
                   \* filename and database of the SQLiteCacheStore

vars == <<kind, cache, lruMaxSize, call, ret, pristine, insOrder, now, ttl,
          timerOn, timerDue, written, memSize, memMaxCount, memMaxSize,
          memMaxEntrySize, rows, rowSeq, sqlMaxCount, sqlMaxEntrySize, closed,
          remote, uuid, tracked, inval, pc, bg, tracking, maxEntryOpt, quits,
          errs, lapsed, keyPrefix, conn>>

lruVars == <<cache, lruMaxSize>>
histVars == <<pristine, insOrder>>
ttlVars == <<now, ttl, timerOn, timerDue, written>>
memVars == <<memSize, memMaxCount, memMaxSize, memMaxEntrySize>>
sqlVars == <<rows, rowSeq, sqlMaxCount, sqlMaxEntrySize, conn>>
redisVars == <<closed, remote, uuid, tracked, inval, pc, bg, tracking,
               maxEntryOpt, quits, errs, lapsed, keyPrefix>>

(* the part of the state an instance of another class leaves untouched *)
Files == {"F", "G"}
Paths == {":memory:"} \cup Files
NoFiles == [p \in Files |-> [rows |-> {}, seq |-> 0]]

(* the connector and the files of a process whose first and only store was *)
(* constructed with filename                                               *)
FirstStore(filename) ==
  [instance |-> filename, files |-> NoFiles, filename |-> filename,
   path |-> filename]

NoConn ==
  [instance |-> "none", files |-> NoFiles, filename |-> "none",
   path |-> "none"]

NoSql ==
  /\ conn = NoConn
  /\ rows = {}
  /\ rowSeq = 0
  /\ sqlMaxCount = 0
  /\ sqlMaxEntrySize = 0

NoRedis ==
  /\ closed = FALSE
  /\ remote = <<>>
  /\ uuid = 0
  /\ tracked = {}
  /\ inval = <<>>
  /\ pc = [at |-> "idle"]
  /\ bg = <<>>
  /\ tracking = FALSE
  /\ maxEntryOpt = 0
  /\ quits = <<0, 0>>
  /\ errs = 0
  /\ lapsed = {}
  /\ keyPrefix = <<>>

----------------------------------------------------------------------------
(* Bounds of the model *)

NumKeys == 3          \* keys are 1..NumKeys
MaxPrim == 1          \* primitive values are 0..MaxPrim, 0 is falsy
MaxCap == 2           \* configured LRUCache maxSize ranges over 0..MaxCap

Keys == 1..NumKeys
Prims == 0..MaxPrim

(* Number.POSITIVE_INFINITY, the default of LRUCache.#maxSize: larger than
   any size the model reaches. *)
Infinity == 1000000

----------------------------------------------------------------------------
(* JavaScript values *)

Undefined == [undef |-> TRUE]
Prim(n) == [prim |-> n]
IsUndefined(v) == "undef" \in DOMAIN v

(* ToBoolean(v): undefined and the falsy primitives are falsy, objects are
   truthy. *)
Truthy(v) ==
  /\ ~IsUndefined(v)
  /\ ~("prim" \in DOMAIN v /\ v.prim = 0)

NoCall == [op |-> "none"]

----------------------------------------------------------------------------
(* Map<K, V>: insertion-ordered *)

MapHas(c, key) == \E i \in 1..Len(c) : c[i].k = key

IndexOf(c, key) == CHOOSE i \in 1..Len(c) : c[i].k = key

MapGet(c, key) == IF MapHas(c, key) THEN c[IndexOf(c, key)].v ELSE Undefined

MapDelete(c, key) == SelectSeq(c, LAMBDA e : e.k # key)

(* Map.set keeps the position of a key that is present and appends a new one *)
MapSet(c, key, v) ==
  IF MapHas(c, key)
    THEN [c EXCEPT ![IndexOf(c, key)] = [k |-> key, v |-> v]]
    ELSE Append(c, [k |-> key, v |-> v])

KeysOf(c) == {c[i].k : i \in 1..Len(c)}
KeySeq(c) == [i \in 1..Len(c) |-> c[i].k]

----------------------------------------------------------------------------
(* LRUCache: each operation gives the Map after the call and the result *)

reorder(c, key) ==
  LET entry == MapGet(c, key) IN
  IF ~Truthy(entry) THEN c
  ELSE MapSet(MapDelete(c, key), key, entry)

LRUCache_shift_timedFirst(c) ==
  LET timed == {i \in 1..Len(c) : "expiry" \in DOMAIN c[i].v
                                  /\ ~IsUndefined(c[i].v.expiry)}
      i == IF timed = {} THEN 1
           ELSE CHOOSE j \in timed : \A q \in timed : j <= q
  IN IF Len(c) > 0
       THEN [cache |-> SubSeq(c, 1, i - 1) \o SubSeq(c, i + 1, Len(c)),
             ret |-> <<c[i].k, c[i].v>>]
       ELSE [cache |-> c, ret |-> Undefined]

LRUCache_shift(c) ==
  IF Len(c) > 0
    THEN [cache |-> Tail(c), ret |-> <<c[1].k, c[1].v>>]
    ELSE [cache |-> c, ret |-> Undefined]

LRUCache_get(c, key) ==
  LET c1 == IF MapHas(c, key) THEN reorder(c, key) ELSE c IN
  [cache |-> c1, ret |-> MapGet(c1, key)]

LRUCache_set_evictNewest(c, maxSize, key, v) ==
  LET c1 == IF MapHas(c, key) THEN reorder(c, key)
            ELSE IF Len(c) >= maxSize /\ Len(c) > 0
              THEN SubSeq(c, 1, Len(c) - 1)
            ELSE c
  IN [cache |-> MapSet(c1, key, v), ret |-> Undefined]

LRUCache_set(c, maxSize, key, v) ==
  LET c1 == IF MapHas(c, key) THEN reorder(c, key)
            ELSE IF Len(c) >= maxSize THEN LRUCache_shift(c).cache
            ELSE c
  IN [cache |-> MapSet(c1, key, v), ret |-> Undefined]

LRUCache_delete(c, key) ==
  [cache |-> MapDelete(c, key), ret |-> MapHas(c, key)]

LRUCache_clear(c) == [cache |-> <<>>, ret |-> Undefined]

LRUCache_has_promotes(c, key) ==
  [cache |-> IF MapHas(c, key)
             THEN Append(MapDelete(c, key), [k |-> key, v |-> MapGet(c, key)])
             ELSE c,
   ret |-> MapHas(c, key)]

LRUCache_has(c, key) == [cache |-> c, ret |-> MapHas(c, key)]

LRUCache_size(c) == Len(c)

----------------------------------------------------------------------------
(* The LRUCache instance used on its own *)

InitLRU ==
  /\ kind = "lru"
  /\ cache = <<>>
  /\ lruMaxSize \in (0..MaxCap) \cup {Infinity}
  /\ call = NoCall
  /\ ret = Undefined
  /\ pristine = TRUE
  /\ insOrder = <<>>
  /\ now = 0
  /\ ttl = 0
  /\ timerOn = FALSE
  /\ timerDue = 0
  /\ written = <<>>
  /\ memSize = 0
  /\ memMaxCount = 0
  /\ memMaxSize = 0
  /\ memMaxEntrySize = 0
  /\ NoSql
  /\ NoRedis

LruGet(key) ==
  /\ kind = "lru"
  /\ LET r == LRUCache_get(cache, key) IN
       /\ cache' = r.cache
       /\ ret' = r.ret
  /\ call' = [op |-> "get", key |-> key]
  /\ pristine' = FALSE
  /\ insOrder' = <<>>
  /\ UNCHANGED <<kind, lruMaxSize, ttlVars, memVars, sqlVars, redisVars>>

LruSet(key, v) ==
  /\ kind = "lru"
  /\ LET r == LRUCache_set(cache, lruMaxSize, key, v) IN
       /\ cache' = r.cache
       /\ ret' = r.ret
  /\ call' = [op |-> "set", key |-> key, value |-> v]
  /\ pristine' = (pristine /\ \A i \in 1..Len(insOrder) : insOrder[i] # key)
  /\ insOrder' = IF pristine' THEN Append(insOrder, key) ELSE <<>>
  /\ UNCHANGED <<kind, lruMaxSize, ttlVars, memVars, sqlVars, redisVars>>

LruShift ==
  /\ kind = "lru"
  /\ LET r == LRUCache_shift(cache) IN
       /\ cache' = r.cache
       /\ ret' = r.ret
  /\ call' = [op |-> "shift"]
  /\ pristine' = FALSE
  /\ insOrder' = <<>>
  /\ UNCHANGED <<kind, lruMaxSize, ttlVars, memVars, sqlVars, redisVars>>

LruDelete(key) ==
  /\ kind = "lru"
  /\ LET r == LRUCache_delete(cache, key) IN
       /\ cache' = r.cache
       /\ ret' = r.ret
  /\ call' = [op |-> "delete", key |-> key]
  /\ pristine' = FALSE
  /\ insOrder' = <<>>
  /\ UNCHANGED <<kind, lruMaxSize, ttlVars, memVars, sqlVars, redisVars>>

LruClear ==
  /\ kind = "lru"
  /\ LET r == LRUCache_clear(cache) IN
       /\ cache' = r.cache
       /\ ret' = r.ret
  /\ call' = [op |-> "clear"]
  /\ pristine' = FALSE
  /\ insOrder' = <<>>
  /\ UNCHANGED <<kind, lruMaxSize, ttlVars, memVars, sqlVars, redisVars>>

LruHas(key) ==
  /\ kind = "lru"
  /\ LET r == LRUCache_has(cache, key) IN
       /\ cache' = r.cache
       /\ ret' = r.ret
  /\ call' = [op |-> "has", key |-> key]
  /\ pristine' = FALSE
  /\ insOrder' = <<>>
  /\ UNCHANGED <<kind, lruMaxSize, ttlVars, memVars, sqlVars, redisVars>>

NextLRU ==
  \/ \E key \in Keys : LruGet(key)
  \/ \E key \in Keys, n \in Prims : LruSet(key, Prim(n))
  \/ LruShift
  \/ \E key \in Keys : LruDelete(key)
  \/ LruClear
  \/ \E key \in Keys : LruHas(key)

SpecLRU == InitLRU /\ [][NextLRU]_vars

----------------------------------------------------------------------------
(* LRUCacheWithTTL: the wrapped LRUCache holds objects {value, expiry};
   expiry and ttl are a number Prim(n) or Undefined. *)

isExpired_atExpiry(entry, t) ==
  IF IsUndefined(entry.expiry) THEN FALSE
  ELSE t >= entry.expiry.prim

isExpired(entry, t) ==
  IF IsUndefined(entry.expiry) THEN FALSE
  ELSE t > entry.expiry.prim

LRUCacheWithTTL_get_sweeps(c, key, t) ==
  LET r == LRUCache_get(c, key)
      entry == r.ret
      swept == SelectSeq(r.cache, LAMBDA e : ~isExpired(e.v, t))
  IN IF IsUndefined(entry) THEN [cache |-> swept, ret |-> Undefined]
     ELSE IF isExpired(entry, t) THEN [cache |-> swept, ret |-> Undefined]
     ELSE [cache |-> swept, ret |-> entry.value]

LRUCacheWithTTL_get(c, key, t) ==
  LET r == LRUCache_get(c, key)
      entry == r.ret
  IN IF IsUndefined(entry) THEN [cache |-> r.cache, ret |-> Undefined]
     ELSE IF isExpired(entry, t)
       THEN [cache |-> LRUCache_delete(r.cache, key).cache, ret |-> Undefined]
     ELSE [cache |-> r.cache, ret |-> entry.value]

LRUCacheWithTTL_set_truthyTtl(c, maxSize, key, value, ttlArg, defaultTtl, t) ==
  LET expiry == IF Truthy(ttlArg) THEN Prim(t + ttlArg.prim)
                ELSE IF Truthy(defaultTtl) THEN Prim(t + defaultTtl.prim)
                ELSE Undefined
  IN LRUCache_set(c, maxSize, key, [value |-> value, expiry |-> expiry])

LRUCacheWithTTL_set(c, maxSize, key, value, ttlArg, defaultTtl, t) ==
  LET expiry == IF ~IsUndefined(ttlArg) THEN Prim(t + ttlArg.prim)
                ELSE IF ~IsUndefined(defaultTtl) THEN Prim(t + defaultTtl.prim)
                ELSE Undefined
  IN LRUCache_set(c, maxSize, key, [value |-> value, expiry |-> expiry])

LRUCacheWithTTL_shift_hidesTimed(c) ==
  LET r == LRUCache_shift(c) IN
  IF r.ret = Undefined THEN [cache |-> r.cache, ret |-> Undefined]
  ELSE IF ~IsUndefined(r.ret[2].expiry)
    THEN [cache |-> r.cache, ret |-> Undefined]
  ELSE [cache |-> r.cache, ret |-> <<r.ret[1], r.ret[2].value>>]

LRUCacheWithTTL_shift(c) ==
  LET r == LRUCache_shift(c) IN
  IF r.ret = Undefined THEN [cache |-> r.cache, ret |-> Undefined]
  ELSE [cache |-> r.cache, ret |-> <<r.ret[1], r.ret[2].value>>]

LRUCacheWithTTL_delete(c, key) == LRUCache_delete(c, key)

LRUCacheWithTTL_clear(c) == LRUCache_clear(c)

LRUCacheWithTTL_has_keepsExpired(c, key, t) ==
  LET r == LRUCache_get(c, key)
      entry == r.ret
  IN IF IsUndefined(entry) THEN [cache |-> r.cache, ret |-> FALSE]
     ELSE IF isExpired(entry, t) THEN [cache |-> r.cache, ret |-> FALSE]
     ELSE [cache |-> r.cache, ret |-> TRUE]

LRUCacheWithTTL_has(c, key, t) ==
  LET r == LRUCache_get(c, key)
      entry == r.ret
  IN IF IsUndefined(entry) THEN [cache |-> r.cache, ret |-> FALSE]
     ELSE IF isExpired(entry, t)
       THEN [cache |-> LRUCache_delete(r.cache, key).cache, ret |-> FALSE]
     ELSE [cache |-> r.cache, ret |-> TRUE]

cleanup_atExpiry(c, t) ==
  SelectSeq(c, LAMBDA e :
    ~(~IsUndefined(e.v.expiry) /\ t >= e.v.expiry.prim))

(* the callback of #timer: one pass over entries(), deleting the expired *)
cleanup(c, t) ==
  SelectSeq(c, LAMBDA e :
    ~(~IsUndefined(e.v.expiry) /\ t > e.v.expiry.prim))

----------------------------------------------------------------------------
(* The LRUCacheWithTTL instance *)

MaxTime == 2          \* performance.now() ranges over 0..MaxTime
MaxTtl == 1           \* ttl arguments and the default ttl range over 0..MaxTtl
CleanupInterval == 2  \* #cleanupInterval, in clock ticks

(* the keys and the values used with the LRUCacheWithTTL instance; the class
   never inspects a value *)
TtlKeys == {1, 2}
TtlValues == {Prim(0), Prim(1)}
Ttls == {Undefined} \cup {Prim(n) : n \in 0..MaxTtl}

(* history: forget the keys that are no longer stored *)
Stored(w, c) == [key \in DOMAIN w |-> IF MapHas(c, key) THEN w[key] ELSE Undefined]

InitTTL ==
  /\ kind = "ttl"
  /\ cache = <<>>
  /\ lruMaxSize \in 0..MaxCap
  /\ call = NoCall
  /\ ret = Undefined
  /\ pristine = FALSE
  /\ insOrder = <<>>
  /\ now = 0
  /\ ttl \in Ttls
  /\ timerOn \in BOOLEAN
  /\ timerDue = CleanupInterval
  /\ written = [key \in Keys \cup TtlKeys |-> Undefined]
  /\ memSize = 0
  /\ memMaxCount = 0
  /\ memMaxSize = 0
  /\ memMaxEntrySize = 0
  /\ NoSql
  /\ NoRedis

TtlFrame == UNCHANGED <<kind, lruMaxSize, histVars, now, ttl, memVars, sqlVars,
                        redisVars>>

TtlGet(key) ==
  /\ kind = "ttl"
  /\ LET r == LRUCacheWithTTL_get(cache, key, now) IN
       /\ cache' = r.cache
       /\ ret' = r.ret
       /\ written' = Stored(written, r.cache)
  /\ call' = [op |-> "get", key |-> key, present |-> MapHas(cache, key)]
  /\ UNCHANGED <<timerOn, timerDue>>
  /\ TtlFrame

TtlSet(key, value, ttlArg) ==
  /\ kind = "ttl"
  /\ LET r == LRUCacheWithTTL_set(cache, lruMaxSize, key, value, ttlArg, ttl, now) IN
       /\ cache' = r.cache
       /\ ret' = r.ret
       /\ written' = Stored([written EXCEPT ![key] =
                              [at |-> now,
                               ttl |-> IF IsUndefined(ttlArg) THEN ttl ELSE ttlArg,
                               value |-> value]], r.cache)
  /\ call' = [op |-> "set", key |-> key, value |-> value, ttl |-> ttlArg,
              present |-> MapHas(cache, key),
              evicts |-> IF MapHas(cache, key) \/ Len(cache) < lruMaxSize
                            \/ cache = <<>>
                         THEN "none"
                         ELSE IF isExpired(Head(cache).v, now) THEN "expired"
                         ELSE "live"]
  /\ UNCHANGED <<timerOn, timerDue>>
  /\ TtlFrame

TtlShift ==
  /\ kind = "ttl"
  /\ LET r == LRUCacheWithTTL_shift(cache) IN
       /\ cache' = r.cache
       /\ ret' = r.ret
       /\ written' = Stored(written, r.cache)
  /\ call' = [op |-> "shift",
              expired |-> cache # <<>> /\ isExpired(Head(cache).v, now)]
  /\ UNCHANGED <<timerOn, timerDue>>
  /\ TtlFrame

TtlDelete(key) ==
  /\ kind = "ttl"
  /\ LET r == LRUCacheWithTTL_delete(cache, key) IN
       /\ cache' = r.cache
       /\ ret' = r.ret
       /\ written' = Stored(written, r.cache)
  /\ call' = [op |-> "delete", key |-> key]
  /\ UNCHANGED <<timerOn, timerDue>>
  /\ TtlFrame

TtlClear ==
  /\ kind = "ttl"
  /\ LET r == LRUCacheWithTTL_clear(cache) IN
       /\ cache' = r.cache
       /\ ret' = r.ret
       /\ written' = Stored(written, r.cache)
  /\ call' = [op |-> "clear"]
  /\ UNCHANGED <<timerOn, timerDue>>
  /\ TtlFrame

TtlHas(key) ==
  /\ kind = "ttl"
  /\ LET r == LRUCacheWithTTL_has(cache, key, now) IN
       /\ cache' = r.cache
       /\ ret' = r.ret
       /\ written' = Stored(written, r.cache)
  /\ call' = [op |-> "has", key |-> key, present |-> MapHas(cache, key)]
  /\ UNCHANGED <<timerOn, timerDue>>
  /\ TtlFrame

(* clearTimeout(#timer) *)
cancelCleanupTimer ==
  /\ kind = "ttl"
  /\ timerOn' = FALSE
  /\ call' = [op |-> "cancelCleanupTimer"]
  /\ ret' = Undefined
  /\ UNCHANGED <<cache, written, timerDue>>
  /\ TtlFrame

(* #timer fires: the cleanup pass, then #timer.refresh() *)
TimerFires ==
  /\ kind = "ttl"
  /\ timerOn
  /\ now >= timerDue
  /\ cache' = cleanup(cache, now)
  /\ written' = Stored(written, cache')
  /\ timerDue' = now + CleanupInterval
  /\ call' = [op |-> "timer", swept |-> Len(cache) - Len(cache')]
  /\ ret' = Undefined
  /\ UNCHANGED timerOn
  /\ TtlFrame

(* the clock advances *)
Tick ==
  /\ kind \in {"ttl", "sql"}
  /\ now < MaxTime
  /\ now' = now + 1
  /\ call' = [op |-> "tick"]
  /\ ret' = Undefined
  /\ UNCHANGED <<kind, cache, lruMaxSize, histVars, ttl, timerOn, timerDue,
                 written, memVars, sqlVars, redisVars>>

NextTTL ==
  \/ \E key \in TtlKeys : TtlGet(key)
  \/ \E key \in TtlKeys, value \in TtlValues, ttlArg \in Ttls : TtlSet(key, value, ttlArg)
  \/ TtlShift
  \/ \E key \in TtlKeys : TtlDelete(key)
  \/ TtlClear
  \/ \E key \in TtlKeys : TtlHas(key)
  \/ cancelCleanupTimer
  \/ TimerFires
  \/ Tick

SpecTTL == InitTTL /\ [][NextTTL]_vars

(* An LRUCacheWithTTL without the cleanup timer and without a default ttl  *)
(* that is only written, with more keys than it holds                      *)
InitEvict ==
  /\ InitTTL
  /\ ~timerOn
  /\ IsUndefined(ttl)

NextEvict ==
  \/ \E key \in Keys, ttlArg \in Ttls : TtlSet(key, Prim(0), ttlArg)
  \/ Tick

SpecEvict == InitEvict /\ [][NextEvict]_vars

(* An LRUCache or an LRUCacheWithTTL that is written, read with get and    *)
(* shifted                                                                 *)
NextShift ==
  \/ \E key \in Keys : LruGet(key)
  \/ \E key \in Keys, n \in Prims : LruSet(key, Prim(n))
  \/ LruShift
  \/ \E key \in TtlKeys : TtlGet(key)
  \/ \E key \in TtlKeys, value \in TtlValues, ttlArg \in Ttls : TtlSet(key, value, ttlArg)
  \/ TtlShift
  \/ Tick

SpecShift == (InitLRU \/ InitTTL) /\ [][NextShift]_vars

(* A cache constructed with stayAlive and without capacity pressure or     *)
(* default ttl, that is written, read with get and cleared.  The clock     *)
(* advances and, while the process runs, the event loop calls the callback *)
(* of a timer that is due (a tick of the clock changes now, and a callback *)
(* changes the time the timer is due).                                     *)
InitSweep ==
  /\ InitTTL
  /\ timerOn
  /\ lruMaxSize = MaxCap
  /\ ttl = Undefined

NextSweep ==
  \/ \E key \in TtlKeys : TtlGet(key)
  \/ \E key \in TtlKeys, value \in TtlValues, ttlArg \in Ttls : TtlSet(key, value, ttlArg)
  \/ TtlClear
  \/ cancelCleanupTimer
  \/ TimerFires
  \/ Tick

SpecSweep ==
  /\ InitSweep
  /\ [][NextSweep]_vars
  /\ WF_now(Tick)
  /\ WF_timerDue(TimerFires)

----------------------------------------------------------------------------
(* MemoryCacheStore: #data is an LRUCache of objects {value, metadata, size};
   a value (string or Buffer) is the sequence of its bytes. *)

byteLength(value) == Len(value)

Thrown(e) == [throws |-> e]

RECURSIVE clean_countOnly(_, _, _, _)
clean_countOnly(c, size, maxCount, maxSize) ==
  IF Len(c) > maxCount
    THEN LET r == LRUCache_shift(c)
             rest == clean_countOnly(r.cache,
                       size - (IF r.ret = Undefined THEN 0 ELSE r.ret[2].size),
                       maxCount, maxSize)
         IN [rest EXCEPT !.shifts = @ + 1]
    ELSE [cache |-> c, size |-> size, shifts |-> 0, loops |-> FALSE]

(* #clean(): the Map and #size after the loop, and the number of shifts it *)
(* made.  An iteration on the empty Map shifts undefined and leaves #size  *)
(* and so the loop condition as they are: the loop never ends (loops).     *)
RECURSIVE clean(_, _, _, _)
clean(c, size, maxCount, maxSize) ==
  IF Len(c) > maxCount \/ size > maxSize
    THEN IF c = <<>>
         THEN [cache |-> c, size |-> size, shifts |-> 0, loops |-> TRUE]
         ELSE LET r == LRUCache_shift(c)
                  rest == clean(r.cache,
                            size - (IF r.ret = Undefined THEN 0
                                    ELSE r.ret[2].size),
                            maxCount, maxSize)
              IN [rest EXCEPT !.shifts = @ + 1]
    ELSE [cache |-> c, size |-> size, shifts |-> 0, loops |-> FALSE]

MemoryCacheStore_get(c, key) == LRUCache_get(c, key)

MemoryCacheStore_set_cleanFirst(c, size, maxCount, maxSize, maxEntrySize, key, value, metadata) ==
  LET sz == byteLength(value) IN
  IF sz > maxEntrySize
    THEN [cache |-> c, size |-> size, ret |-> Thrown("Error"),
          shifts |-> 0, loops |-> FALSE]
    ELSE LET r == clean(c, size + sz, maxCount, maxSize)
             c1 == LRUCache_set(r.cache, maxCount, key,
                     [value |-> value, metadata |-> metadata, size |-> sz]).cache
         IN [cache |-> c1, size |-> r.size, ret |-> Undefined,
             shifts |-> r.shifts, loops |-> r.loops]

(* set(key, value, metadata): the Map, #size and the outcome, with the     *)
(* number of shifts of #clean() and whether it loops for ever              *)
MemoryCacheStore_set(c, size, maxCount, maxSize, maxEntrySize, key, value, metadata) ==
  LET sz == byteLength(value) IN
  IF sz > maxEntrySize
    THEN [cache |-> c, size |-> size, ret |-> Thrown("Error"),
          shifts |-> 0, loops |-> FALSE]
    ELSE LET c1 == LRUCache_set(c, maxCount, key,
                     [value |-> value, metadata |-> metadata, size |-> sz]).cache
             r == clean(c1, size + sz, maxCount, maxSize)
         IN [cache |-> r.cache, size |-> r.size, ret |-> Undefined,
             shifts |-> r.shifts, loops |-> r.loops]

MemoryCacheStore_delete(c, size, key) ==
  LET g == LRUCache_get(c, key)
      entry == g.ret
  IN IF ~Truthy(entry) THEN [cache |-> g.cache, size |-> size, ret |-> FALSE]
     ELSE LET d == LRUCache_delete(g.cache, key) IN
          [cache |-> d.cache, size |-> size - entry.size, ret |-> d.ret]

MemoryCacheStore_clear(c) == [cache |-> LRUCache_clear(c).cache, size |-> 0, ret |-> Undefined]

MemoryCacheStore_has(c, key) == LRUCache_has(c, key)

----------------------------------------------------------------------------
(* The MemoryCacheStore instance *)

NumMemKeys == 2       \* keys of the MemoryCacheStore instance are 1..NumMemKeys
MaxLen == 2           \* values are 0..MaxLen bytes long
MaxMemSize == 3       \* configured maxSize and maxEntrySize range over 0..MaxMemSize

MemKeys == 1..NumMemKeys
Bytes == {"x"}
MemValues == UNION {[1..n -> Bytes] : n \in 0..MaxLen}
EmptyObject == [object |-> "{}"]

InitMem ==
  /\ kind = "mem"
  /\ cache = <<>>
  /\ memMaxCount \in 0..MaxCap
  /\ lruMaxSize = memMaxCount
  /\ memMaxSize \in 0..MaxMemSize
  /\ memMaxEntrySize \in 0..MaxMemSize
  /\ memSize = 0
  /\ call = NoCall
  /\ ret = Undefined
  /\ pristine = FALSE
  /\ insOrder = <<>>
  /\ now = 0
  /\ ttl = 0
  /\ timerOn = FALSE
  /\ timerDue = 0
  /\ written = <<>>
  /\ NoSql
  /\ NoRedis

MemFrame == UNCHANGED <<kind, lruMaxSize, histVars, ttlVars, memMaxCount,
                        memMaxSize, memMaxEntrySize, sqlVars, redisVars>>

MemGet(key) ==
  /\ kind = "mem"
  /\ LET r == MemoryCacheStore_get(cache, key) IN
       /\ cache' = r.cache
       /\ ret' = r.ret
  /\ call' = [op |-> "get", key |-> key]
  /\ UNCHANGED memSize
  /\ MemFrame

MemSet(key, value, metadata) ==
  /\ kind = "mem"
  /\ LET r == MemoryCacheStore_set(cache, memSize, memMaxCount, memMaxSize,
                                   memMaxEntrySize, key, value, metadata) IN
       /\ cache' = r.cache
       /\ memSize' = r.size
       /\ ret' = r.ret
  /\ call' = [op |-> "set", key |-> key, value |-> value,
              present |-> MapHas(cache, key), count |-> Len(cache),
              shifts |-> MemoryCacheStore_set(cache, memSize, memMaxCount,
                           memMaxSize, memMaxEntrySize, key, value,
                           metadata).shifts,
              loops |-> MemoryCacheStore_set(cache, memSize, memMaxCount,
                          memMaxSize, memMaxEntrySize, key, value,
                          metadata).loops]
  /\ MemFrame

MemDelete(key) ==
  /\ kind = "mem"
  /\ LET r == MemoryCacheStore_delete(cache, memSize, key) IN
       /\ cache' = r.cache
       /\ memSize' = r.size
       /\ ret' = r.ret
  /\ call' = [op |-> "delete", key |-> key]
  /\ MemFrame

MemClear ==
  /\ kind = "mem"
  /\ LET r == MemoryCacheStore_clear(cache) IN
       /\ cache' = r.cache
       /\ memSize' = r.size
       /\ ret' = r.ret
  /\ call' = [op |-> "clear"]
  /\ MemFrame

MemHas(key) ==
  /\ kind = "mem"
  /\ LET r == MemoryCacheStore_has(cache, key) IN
       /\ cache' = r.cache
       /\ ret' = r.ret
  /\ call' = [op |-> "has", key |-> key]
  /\ UNCHANGED memSize
  /\ MemFrame

NextMem ==
  \/ \E key \in MemKeys : MemGet(key)
  \/ \E key \in MemKeys, value \in MemValues : MemSet(key, value, EmptyObject)
  \/ \E key \in MemKeys : MemDelete(key)
  \/ MemClear
  \/ \E key \in MemKeys : MemHas(key)

SpecMem == InitMem /\ [][NextMem]_vars

(* An LRUCache, an LRUCacheWithTTL or a MemoryCacheStore that is written   *)
(* and asked with has                                                      *)
NextHas ==
  \/ \E key \in Keys, n \in Prims : LruSet(key, Prim(n))
  \/ \E key \in Keys : LruHas(key)
  \/ \E key \in TtlKeys, value \in TtlValues, ttlArg \in Ttls : TtlSet(key, value, ttlArg)
  \/ \E key \in TtlKeys : TtlHas(key)
  \/ \E key \in MemKeys, value \in MemValues : MemSet(key, value, EmptyObject)
  \/ \E key \in MemKeys : MemHas(key)
  \/ Tick

SpecHas == (InitLRU \/ InitTTL \/ InitMem) /\ [][NextHas]_vars

----------------------------------------------------------------------------
(* Claims about LRUCache *)

Last(c) == c[Len(c)]

(* C3: for LRUCache and LRUCacheWithTTL constructed with any non-negative
   integer maxSize, 0 included, size <= maxSize after every call returns. *)
C3_SizeWithinMaxSize == Len(cache) <= lruMaxSize

(* C4: LRUCache.get(key) on a present key moves that key to the
   most-recently-used end whatever value is stored under it: right after
   the get the key is last in entries(). *)
C4_GetPromotesAnyValue ==
  [][(call'.op = "get" /\ MapHas(cache, call'.key))
       => Last(cache').k = call'.key]_vars

(* C5: LRUCache.set(key, v) on an already-present key replaces its value
   with v, moves the key to the most-recently-used end whatever the previous
   value was, leaves size unchanged and evicts no entry. *)
C5_SetPresentPromotes ==
  [][(call'.op = "set" /\ MapHas(cache, call'.key))
       => /\ MapGet(cache', call'.key) = call'.value
          /\ Last(cache').k = call'.key
          /\ Len(cache') = Len(cache)
          /\ KeysOf(cache') = KeysOf(cache)]_vars

(* C6: with capacity N >= 1, setting N+1 distinct keys in order and nothing
   else leaves the first-inserted key absent and the other N present, listed
   by entries() from least to most recently accessed; and every set of a new
   key at capacity removes exactly one entry, the one at the LRU end. *)
C6_EvictsOldest ==
  /\ [](( /\ pristine
          /\ lruMaxSize >= 1
          /\ Len(insOrder) = lruMaxSize + 1 )
         => KeySeq(cache) = Tail(insOrder))
  /\ [][( /\ call'.op = "set"
          /\ ~MapHas(cache, call'.key)
          /\ lruMaxSize >= 1
          /\ Len(cache) = lruMaxSize )
         => cache' = Append(Tail(cache), [k |-> call'.key, v |-> call'.value])]_vars

C6_Witness ==
  /\ pristine
  /\ lruMaxSize = 2
  /\ Len(insOrder) = 3
  /\ Len(cache) = 2

----------------------------------------------------------------------------
(* Claims about LRUCacheWithTTL *)

(* the last set of call'.key, when that key is still stored and was given a
   ttl (its own or the default) *)
WrittenWithTtl(key) ==
  /\ ~IsUndefined(written[key])
  /\ ~IsUndefined(written[key].ttl)

(* C8 as stated: after set(key, v, ttl) at time t0 (key not set, deleted or
   evicted afterwards), get(key) at time t returns v when t - t0 < ttl and is
   a miss when t - t0 >= ttl. *)
C8_HitBeforeTtlMissAtTtl ==
  [][(call'.op = "get" /\ WrittenWithTtl(call'.key))
       => LET w == written[call'.key] IN
          /\ (now - w.at < w.ttl.prim) => ret' = w.value
          /\ (now - w.at >= w.ttl.prim) => ret' = Undefined]_vars

(* C8 amended: after set(key, v, ttl) at time t0 (key not set, deleted or
   evicted afterwards), get(key) at time t returns v when t - t0 <= ttl and
   is a miss when t - t0 > ttl. *)
C8_HitUntilTtlMissAfter ==
  [][(call'.op = "get" /\ WrittenWithTtl(call'.key))
       => LET w == written[call'.key] IN
          /\ (now - w.at <= w.ttl.prim) => ret' = w.value
          /\ (now - w.at > w.ttl.prim) => ret' = Undefined]_vars

(* a get that found the entry exactly ttl after its set, and hit *)
C8_Witness ==
  /\ call.op = "get"
  /\ ~IsUndefined(written[call.key])
  /\ ~IsUndefined(written[call.key].ttl)
  /\ written[call.key].ttl.prim = 1
  /\ now - written[call.key].at = 1
  /\ ret = written[call.key].value

ExpiryPassed(entry, t) ==
  /\ ~IsUndefined(entry.expiry)
  /\ t > entry.expiry.prim

(* C9: get(key) or has(key) on an entry whose expiry has passed removes that
   entry (size decreases by one) and reports a miss / false, whether or not
   the background sweep is enabled; on an entry whose expiry has not passed
   or that has no expiry, neither call removes it. *)
C9_LazyExpiryOnRead ==
  [][(call'.op \in {"get", "has"} /\ MapHas(cache, call'.key))
       => LET entry == MapGet(cache, call'.key) IN
          IF ExpiryPassed(entry, now)
            THEN /\ ~MapHas(cache', call'.key)
                 /\ Len(cache') = Len(cache) - 1
                 /\ KeysOf(cache') = KeysOf(cache) \ {call'.key}
                 /\ ret' = IF call'.op = "get" THEN Undefined ELSE FALSE
            ELSE /\ MapHas(cache', call'.key)
                 /\ Len(cache') = Len(cache)
                 /\ KeysOf(cache') = KeysOf(cache)
                 /\ ret' = IF call'.op = "get" THEN entry.value ELSE TRUE]_vars

(* a read that found an expired entry and removed it, the timer not armed,
   another entry still stored *)
C9_Witness ==
  /\ call.op = "has"
  /\ call.present
  /\ ~MapHas(cache, call.key)
  /\ ret = FALSE
  /\ Len(cache) = 1
  /\ ~timerOn

(* C10: every set(key, v, ttl?) gives the entry expiry now+ttl when ttl is
   passed, else now+defaultTTL when the instance has a default ttl, else no
   expiry; the expiry of a previous set of the same key is discarded, and an
   entry with no expiry is never reported expired (nor swept). *)
C10_ExpiryOfSet ==
  /\ [][call'.op = "set"
         => /\ MapHas(cache', call'.key)
            /\ LET entry == MapGet(cache', call'.key) IN
               /\ entry.value = call'.value
               /\ entry.expiry =
                    IF ~IsUndefined(call'.ttl) THEN Prim(now + call'.ttl.prim)
                    ELSE IF ~IsUndefined(ttl) THEN Prim(now + ttl.prim)
                    ELSE Undefined]_vars
  /\ [][\A key \in KeysOf(cache) :
          (IsUndefined(MapGet(cache, key).expiry)
             /\ call'.op \in {"get", "has", "timer", "tick"}
             /\ (call'.op \in {"get", "has"} => call'.key = key))
          => /\ MapHas(cache', key)
             /\ MapGet(cache', key) = MapGet(cache, key)
             /\ call'.op = "get" => ret' = MapGet(cache, key).value
             /\ call'.op = "has" => ret' = TRUE]_vars

(* a set with ttl 0 on an instance whose default ttl is 1, over an entry of
   the same key that was stored earlier *)
C10_Witness ==
  /\ call.op = "set"
  /\ call.present
  /\ call.ttl = Prim(0)
  /\ ttl = Prim(1)
  /\ now = 2
  /\ MapGet(cache, call.key).expiry = Prim(2)

(* the entry of key has an expiry and the clock is past it *)
ExpiredIn(c, key, t) ==
  /\ MapHas(c, key)
  /\ ~IsUndefined(MapGet(c, key).expiry)
  /\ t > MapGet(c, key).expiry.prim

(* C27: with stayAlive and until cancelCleanupTimer(), the sweep fires     *)
(* once its interval has passed; each tick removes every entry whose       *)
(* expiry has passed and no other, keeps the order of the rest, and arms   *)
(* the timer for one interval later, so an expired entry is removed in the *)
(* end without being read (as far as the timer is due within the time      *)
(* followed); once the timer is cancelled no tick runs and it stays off    *)
C27_SweepRemovesExpired ==
  /\ [][(kind = "ttl" /\ call'.op = "timer") =>
          /\ timerOn /\ timerOn'
          /\ now >= timerDue
          /\ timerDue' = now + CleanupInterval
          /\ cache' = SelectSeq(cache, LAMBDA e :
                        IsUndefined(e.v.expiry) \/ now <= e.v.expiry.prim)]_vars
  /\ [][(kind = "ttl" /\ ~timerOn) => (~timerOn' /\ call'.op # "timer")]_vars
  /\ \A key \in TtlKeys :
       (timerOn /\ timerDue <= MaxTime /\ ExpiredIn(cache, key, now))
         ~> (~timerOn \/ ~ExpiredIn(cache, key, now))

(* a tick has removed an expired entry and kept another whose expiry is    *)
(* the present clock reading                                               *)
C27_Witness ==
  /\ kind = "ttl"
  /\ call.op = "timer"
  /\ call.swept >= 1
  /\ \E key \in TtlKeys :
       /\ MapHas(cache, key)
       /\ MapGet(cache, key).expiry = Prim(now)

(* C28: in an LRUCacheWithTTL without stayAlive there is no timer, and the  *)
(* passage of time alone never changes the entries or their number: an     *)
(* entry, expired or not, stays stored and counted until a get or has of   *)
(* its key, a delete of its key, a clear, a shift or the eviction of a set *)
(* into a full cache removes it                                            *)
C28_NoSweepWithoutTimer ==
  [][(kind = "ttl" /\ ~timerOn) =>
       /\ call'.op # "timer"
       /\ ~timerOn'
       /\ call'.op = "tick" =>
            (cache' = cache /\ LRUCache_size(cache') = Len(cache))
       /\ \A key \in TtlKeys :
            (MapHas(cache, key) /\ ~MapHas(cache', key)) =>
              \/ call'.op \in {"get", "has", "delete"} /\ call'.key = key
              \/ call'.op \in {"clear", "shift"}
              \/ (call'.op = "set" /\ call'.key # key
                                   /\ Len(cache) >= lruMaxSize)]_vars

(* the clock has just advanced over a cache without timer that holds an    *)
(* expired entry                                                           *)
C28_Witness ==
  /\ kind = "ttl"
  /\ ~timerOn
  /\ call.op = "tick"
  /\ \E key \in TtlKeys : ExpiredIn(cache, key, now) /\ ExpiredIn(cache, key, now - 1)

(* C29: shift() of LRUCache and of LRUCacheWithTTL removes the entry at    *)
(* the least-recently-used end and returns its key and value, and leaves   *)
(* the other entries and their order as they were; on an empty cache it    *)
(* returns undefined and changes nothing.  LRUCacheWithTTL checks no       *)
(* expiry: an expired entry is returned with its value                     *)
C29_ShiftTakesOldest ==
  [][(kind \in {"lru", "ttl"} /\ call'.op = "shift") =>
       IF cache = <<>>
       THEN ret' = Undefined /\ cache' = cache
       ELSE /\ cache' = Tail(cache)
            /\ ret' # Undefined
            /\ ret'[1] = Head(cache).k
            /\ ret'[2] = (IF kind = "lru" THEN Head(cache).v
                          ELSE Head(cache).v.value)
            /\ Len(ret') = 2]_vars

(* an LRUCacheWithTTL has just shifted an expired entry, got its key and   *)
(* value, and still holds another entry                                    *)
C29_Witness ==
  /\ kind = "ttl"
  /\ call.op = "shift"
  /\ call.expired
  /\ ret # Undefined
  /\ ret[1] \in TtlKeys
  /\ ret[2] \in TtlValues
  /\ cache # <<>>

(* C40: capacity eviction in LRUCacheWithTTL ignores expiry: when set of a *)
(* new key finds the cache at maxSize, the entry removed is the least      *)
(* recently used one, also when it is unexpired and other stored entries   *)
(* are expired; every other entry, expired or not, stays in its place      *)
C40_EvictionIgnoresExpiry ==
  [][(/\ kind = "ttl"
      /\ call'.op = "set"
      /\ ~MapHas(cache, call'.key)
      /\ cache # <<>>
      /\ Len(cache) >= lruMaxSize) =>
       /\ Len(cache') = Len(cache)
       /\ SubSeq(cache', 1, Len(cache') - 1) = Tail(cache)
       /\ cache'[Len(cache')].k = call'.key
       /\ ~MapHas(cache', Head(cache).k)]_vars

(* a set has just evicted an unexpired entry while the entry it left at    *)
(* the least-recently-used end is expired                                  *)
C40_Witness ==
  /\ kind = "ttl"
  /\ call.op = "set"
  /\ call.evicts = "live"
  /\ Len(cache) = 2
  /\ ExpiredIn(cache, cache[1].k, now)

(* C39: LRUCacheWithTTL.has(key) on a present, unexpired key moves that    *)
(* key to the most-recently-used end and so changes which key is evicted   *)
(* next, whereas LRUCache.has and MemoryCacheStore.has leave the order and *)
(* every stored entry as they were                                         *)
C39_HasPromotesOnlyWithTtl ==
  [][(kind \in {"lru", "ttl", "mem"} /\ call'.op = "has") =>
       /\ (kind = "ttl" /\ MapHas(cache, call'.key)
                        /\ ~ExpiredIn(cache, call'.key, now)) =>
            /\ ret' = TRUE
            /\ cache' = Append(SelectSeq(cache, LAMBDA e : e.k # call'.key),
                               [k |-> call'.key, v |-> MapGet(cache, call'.key)])
       /\ kind \in {"lru", "mem"} =>
            /\ cache' = cache
            /\ memSize' = memSize
            /\ ret' = (call'.key \in KeysOf(cache))]_vars

(* has has just answered true for a key that was set before the other     *)
(* stored key, and that key is now the last to be evicted                  *)
C39_Witness ==
  /\ kind = "ttl"
  /\ call.op = "has"
  /\ ret = TRUE
  /\ Len(cache) = 2
  /\ cache[2].k = call.key
  /\ written[cache[2].k].at < written[cache[1].k].at

----------------------------------------------------------------------------
(* Claims about MemoryCacheStore *)

RECURSIVE SumSizes(_)
SumSizes(c) == IF c = <<>> THEN 0 ELSE Head(c).v.size + SumSizes(Tail(c))

(* C1: after every call in any sequence of set (on new or already-present
   keys), get, delete and clear, byteSize equals the sum of the size fields
   of the entries currently stored. *)
C1_ByteSizeIsSumOfSizes == memSize = SumSizes(cache)

(* C2: for any configured maxCount and maxSize, after every set, get, delete
   or clear returns, size <= maxCount and byteSize <= maxSize. *)
C2_WithinLimits ==
  /\ LRUCache_size(cache) <= memMaxCount
  /\ memSize <= memMaxSize

(* a set into a store of two entries that left one entry: clean() evicted
   for the byte limit *)
C2_Witness ==
  /\ call.op = "set"
  /\ ret = Undefined
  /\ call.count = 2
  /\ LRUCache_size(cache) = 1
  /\ memMaxCount = 2

(* C7: when set(key, v) returns normally and get(key) is the next operation
   on that store, get returns v.  Stated here for MemoryCacheStore and for
   values the limits leave room for (maxCount >= 1, byteLength(v) <= maxSize):
   a store configured to hold nothing keeps nothing (C2). *)
C7_SetThenGetReturnsValue ==
  [][( /\ call.op = "set"
       /\ ret = Undefined
       /\ memMaxCount >= 1
       /\ byteLength(call.value) <= memMaxSize
       /\ call'.op = "get"
       /\ call'.key = call.key )
      => (~IsUndefined(ret') /\ ret'.value = call.value)]_vars

(* C26: during any MemoryCacheStore.set the loop of clean() terminates: in *)
(* every reachable state and configuration it stops after at most as many *)
(* shifts as the Map holds entries, and never iterates on an empty Map     *)
C26_CleanTerminates ==
  [][(kind = "mem" /\ call'.op = "set") =>
       /\ ~call'.loops
       /\ call'.shifts <= call'.count + 1]_vars

(* an overwrite under a maxSize below maxEntrySize: the loop shifted the   *)
(* only entry, stopped on the empty Map, and #size is still above 0        *)
C26_Witness ==
  /\ kind = "mem"
  /\ call.op = "set"
  /\ call.present
  /\ ret = Undefined
  /\ call.shifts = 1
  /\ cache = <<>>
  /\ memSize > 0
  /\ memMaxEntrySize > memMaxSize

(* C35: MemoryCacheStore.set never evicts more than the limits require: a  *)
(* value that, together with the entries of the other keys, fits within    *)
(* maxCount and within maxSize is stored without any other entry being     *)
(* lost                                                                    *)
C35_SetEvictsOnlyWhenOverLimit ==
  [][(/\ kind = "mem"
      /\ call'.op = "set"
      /\ ret' = Undefined
      /\ LET others == SelectSeq(cache, LAMBDA e : e.k # call'.key)
         IN /\ Len(others) + 1 <= memMaxCount
            /\ SumSizes(others) + byteLength(call'.value) <= memMaxSize) =>
       KeysOf(cache') = KeysOf(cache) \cup {call'.key}]_vars

(***************************************************************************)
(* SQLiteCacheStore                                                        *)
(***************************************************************************)
MaxRowSeq == 3        \* at most MaxRowSeq rows are ever inserted

MAX_ENTRY_SIZE == 2000000000

SqlKeys == {1, 2}
(* the (value, metadata) arguments of set *)
SqlEntries == {<<<<"x">>, EmptyObject>>, <<<<"x">>, [object |-> "{a:1}"]>>,
               <<<<"x", "x">>, EmptyObject>>}
SqlTtls == 0..MaxTtl
SqlMaxCounts == {0, 1, 2, Infinity}
SqlMaxEntrySizes == {1, MAX_ENTRY_SIZE}

(* JSON.stringify and JSON.parse of a metadata object *)
JSON_stringify(metadata) == [json |-> metadata]
JSON_parse(blob) == blob.json
(* a text that is not JSON: JSON.parse of it throws a SyntaxError *)
InvalidJson == [text |-> "{invalid-json"]
Parses(blob) == "json" \in DOMAIN blob

(* SELECT ... WHERE key = ? ORDER BY deleteAt ASC LIMIT 1 *)
getValuesQuery(t, key) ==
  LET found == {r \in t : r.key = key}
  IN IF found = {} THEN Undefined
     ELSE CHOOSE r \in found : \A q \in found : r.deleteAt <= q.deleteAt

(* get size(): the total of #countEntriesQuery *)
SQLiteCacheStore_size(t) == Cardinality(t)

(* DELETE ... WHERE deleteAt <= ? *)
deleteExpiredValuesQuery(t, time) == {r \in t : ~(r.deleteAt <= time)}

(* DELETE ... WHERE id IN (SELECT id ... ORDER BY cachedAt DESC LIMIT ?):  *)
(* every table the statement can leave; rows of equal cachedAt come in an  *)
(* order SQL leaves open                                                   *)
deleteOldValuesQuery_keepsAll(t, limit) == {t}

RECURSIVE deleteOldValuesQuery(_, _)
deleteOldValuesQuery(t, limit) ==
  IF limit = 0 \/ t = {} THEN {t}
  ELSE UNION {deleteOldValuesQuery(t \ {r}, limit - 1) :
                r \in {x \in t : \A q \in t : x.cachedAt >= q.cachedAt}}

(* Math.max(Math.floor(maxCount * 0.1), 1) *)
pruneLimit_one(maxCount) == 1

pruneLimit(maxCount) == IF maxCount \div 10 > 1 THEN maxCount \div 10 ELSE 1

prune_bothSteps(t, maxCount, time) ==
  IF maxCount # Infinity /\ SQLiteCacheStore_size(t) <= maxCount THEN {t}
  ELSE IF maxCount = Infinity THEN {deleteExpiredValuesQuery(t, time)}
  ELSE deleteOldValuesQuery(deleteExpiredValuesQuery(t, time),
                            pruneLimit(maxCount))

(* #prune(): every table it can leave *)
prune(t, maxCount, time) ==
  IF maxCount # Infinity /\ SQLiteCacheStore_size(t) <= maxCount THEN {t}
  ELSE IF deleteExpiredValuesQuery(t, time) # t
       THEN {deleteExpiredValuesQuery(t, time)}
  ELSE IF maxCount = Infinity THEN {t}
  ELSE deleteOldValuesQuery(t, pruneLimit(maxCount))

findValue_expiredAtLater(t, key, canBeExpired, time) ==
  LET entry == getValuesQuery(t, key)
  IN IF IsUndefined(entry) THEN Undefined
     ELSE IF time > entry.deleteAt /\ ~canBeExpired THEN Undefined
     ELSE entry

findValue(t, key, canBeExpired, time) ==
  LET entry == getValuesQuery(t, key)
  IN IF IsUndefined(entry) THEN Undefined
     ELSE IF time >= entry.deleteAt /\ ~canBeExpired THEN Undefined
     ELSE entry

SQLiteCacheStore_get(t, key, time) ==
  LET entry == findValue(t, key, FALSE, time)
  IN IF IsUndefined(entry) THEN Undefined
     ELSE [value |-> entry.value, metadata |-> JSON_parse(entry.metadata)]

SQLiteCacheStore_delete(t, key) == {r \in t : r.key # key}

NewRow(id, key, value, metadata, ttlArg, time) ==
  [id |-> id, key |-> key, value |-> value,
   metadata |-> JSON_stringify(metadata),
   deleteAt |-> IF ttlArg > 0 THEN time + ttlArg ELSE Infinity,
   cachedAt |-> time]

SQLiteCacheStore_set_reinsert(t, seq, maxCount, maxEntrySize, key, value, metadata, ttlArg, time) ==
  IF byteLength(value) > maxEntrySize
  THEN {[rows |-> t, seq |-> seq, ret |-> Thrown("Error")]}
  ELSE {[rows |-> SQLiteCacheStore_delete(pruned, key)
                    \cup {NewRow(seq + 1, key, value, metadata, ttlArg, time)},
         seq |-> seq + 1, ret |-> Undefined]
          : pruned \in prune(t, maxCount, time)}

(* set(key, value, metadata, ttl): every outcome [rows, seq, ret] *)
SQLiteCacheStore_set(t, seq, maxCount, maxEntrySize, key, value, metadata, ttlArg, time) ==
  IF byteLength(value) > maxEntrySize
  THEN {[rows |-> t, seq |-> seq, ret |-> Thrown("Error")]}
  ELSE LET entry == findValue(t, key, TRUE, time)
       IN IF ~IsUndefined(entry)
          THEN {[rows |-> (t \ {entry})
                      \cup {NewRow(entry.id, key, value, metadata, ttlArg, time)},
                 seq |-> seq, ret |-> Undefined]}
          ELSE {[rows |-> pruned
                      \cup {NewRow(seq + 1, key, value, metadata, ttlArg, time)},
                 seq |-> seq + 1, ret |-> Undefined]
                  : pruned \in prune(t, maxCount, time)}

(* a store that has just been constructed on an empty database *)
NewSQLiteCacheStore ==
  /\ kind = "sql"
  /\ cache = <<>>
  /\ lruMaxSize = 0
  /\ call = NoCall
  /\ ret = Undefined
  /\ pristine = TRUE
  /\ insOrder = <<>>
  /\ now = 0
  /\ ttl = 0
  /\ timerOn = FALSE
  /\ timerDue = 0
  /\ written = <<>>
  /\ memSize = 0
  /\ memMaxCount = 0
  /\ memMaxSize = 0
  /\ memMaxEntrySize = 0
  /\ rows = {}
  /\ rowSeq = 0
  /\ NoRedis

InitSQL ==
  /\ NewSQLiteCacheStore
  /\ sqlMaxCount \in SqlMaxCounts
  /\ sqlMaxEntrySize \in SqlMaxEntrySizes
  /\ conn = FirstStore(":memory:")

(* a statement of a closed database throws and changes nothing *)
StatementSync_unchecked(isClosed, before, after) == after

StatementSync(isClosed, before, after) ==
  IF isClosed /\ ~("throws" \in DOMAIN after.ret)
  THEN [rows |-> before.rows, seq |-> before.seq,
        ret |-> Thrown("ERR_INVALID_STATE")]
  ELSE after

SqlFrame == UNCHANGED <<kind, cache, lruMaxSize, histVars, ttlVars, memVars,
                        sqlMaxCount, sqlMaxEntrySize, remote, uuid, tracked,
                        inval, pc, bg, tracking, maxEntryOpt, quits, errs,
                        lapsed, keyPrefix, conn>>

(* the table as a statement finds it *)
Db == [rows |-> rows, seq |-> rowSeq]

SqlGet ==
  /\ kind = "sql"
  /\ \E key \in SqlKeys :
       /\ ret' = StatementSync(closed, Db,
                   [rows |-> rows, seq |-> rowSeq,
                    ret |-> SQLiteCacheStore_get(rows, key, now)]).ret
       /\ call' = [op |-> "get", key |-> key]
  /\ UNCHANGED <<rows, rowSeq, closed>>
  /\ SqlFrame

SqlSet ==
  /\ kind = "sql"
  /\ \E key \in SqlKeys, entry \in SqlEntries, ttlArg \in SqlTtls :
       \E done \in SQLiteCacheStore_set(rows, rowSeq, sqlMaxCount,
                     sqlMaxEntrySize, key, entry[1], entry[2], ttlArg, now) :
        LET out == StatementSync(closed, Db, done) IN
         /\ out.seq <= MaxRowSeq
         /\ rows' = out.rows
         /\ rowSeq' = out.seq
         /\ ret' = out.ret
         /\ call' = [op |-> "set", key |-> key, value |-> entry[1],
                     metadata |-> entry[2], ttl |-> ttlArg,
                     had |-> ~IsUndefined(getValuesQuery(rows, key))]
  /\ UNCHANGED closed
  /\ SqlFrame

SqlDelete ==
  /\ kind = "sql"
  /\ \E key \in SqlKeys :
       LET out == StatementSync(closed, Db,
                    [rows |-> SQLiteCacheStore_delete(rows, key),
                     seq |-> rowSeq, ret |-> Undefined])
       IN /\ rows' = out.rows
          /\ ret' = out.ret
          /\ call' = [op |-> "delete", key |-> key]
  /\ UNCHANGED <<rowSeq, closed>>
  /\ SqlFrame

SqlSize ==
  /\ kind = "sql"
  /\ ret' = StatementSync(closed, Db,
              [rows |-> rows, seq |-> rowSeq,
               ret |-> [size |-> SQLiteCacheStore_size(rows)]]).ret
  /\ call' = [op |-> "size"]
  /\ UNCHANGED <<rows, rowSeq, closed>>
  /\ SqlFrame

(* close(): DatabaseSync.close(), which throws on a database already closed *)
SqlClose ==
  /\ kind = "sql"
  /\ closed' = TRUE
  /\ ret' = IF closed THEN Thrown("ERR_INVALID_STATE") ELSE Undefined
  /\ call' = [op |-> "close"]
  /\ UNCHANGED <<rows, rowSeq>>
  /\ SqlFrame

NextSQL == SqlGet \/ SqlSet \/ SqlDelete \/ SqlSize \/ Tick

SpecSQL == InitSQL /\ [][NextSQL]_vars

(* a store without a row limit that is closed at some point; the clock is  *)
(* followed until then                                                     *)
InitSQLClose ==
  /\ InitSQL
  /\ sqlMaxCount = Infinity
  /\ sqlMaxEntrySize = 1

NextSQLClose ==
  \/ SqlGet \/ SqlSet \/ SqlDelete \/ SqlSize \/ SqlClose
  \/ (~closed /\ Tick)

SpecSQLClose == InitSQLClose /\ [][NextSQLClose]_vars

(* A store opened on a database file that an earlier store, of any         *)
(* maxCount, has filled (CREATE TABLE IF NOT EXISTS keeps the rows): the   *)
(* table holds any number of rows, cached at or before now, without ttl or *)
(* with a ttl that may have run out.                                       *)
TableSizes == {0, 1, 2, 3}
LargeTableSizes == {21, 22}
LargeMaxCount == 20
TableMaxCounts == {0, 1, 2, LargeMaxCount, Infinity}

TableRow(i, cachedAt, ttlArg) == NewRow(i, i, <<"x">>, EmptyObject, ttlArg, cachedAt)

(* tables of a few rows, each cached at any time up to now with any ttl *)
SmallTables(time) ==
  UNION {{{TableRow(i, f[i][1], f[i][2]) : i \in 1..n} :
            f \in [1..n -> (0..time) \X SqlTtls]} : n \in TableSizes}

(* tables above LargeMaxCount: the rows up to split were cached at 0, the  *)
(* others now, and the row exp, if any, was given the ttl 1                *)
LargeTables(time) ==
  {{TableRow(i, IF i <= split THEN 0 ELSE time, IF i = exp THEN 1 ELSE 0) :
      i \in 1..n} :
     n \in LargeTableSizes, split \in {0, 1, 20}, exp \in {0, 1, 22}}

InitSQLTable ==
  /\ kind = "sql"
  /\ cache = <<>>
  /\ lruMaxSize = 0
  /\ call = NoCall
  /\ ret = Undefined
  /\ pristine = TRUE
  /\ insOrder = <<>>
  /\ now \in 0..MaxTime
  /\ ttl = 0
  /\ timerOn = FALSE
  /\ timerDue = 0
  /\ written = <<>>
  /\ memSize = 0
  /\ memMaxCount = 0
  /\ memMaxSize = 0
  /\ memMaxEntrySize = 0
  /\ rows \in SmallTables(now) \cup LargeTables(now)
  /\ rowSeq = Cardinality(rows)
  /\ sqlMaxCount \in TableMaxCounts
  /\ sqlMaxEntrySize = MAX_ENTRY_SIZE
  /\ conn = FirstStore("F")
  /\ NoRedis

(* set(key, value, metadata, ttl) of a key that has no row *)
SqlSetNewKey ==
  /\ kind = "sql"
  /\ \E ttlArg \in SqlTtls :
       \E done \in SQLiteCacheStore_set(rows, rowSeq, sqlMaxCount,
                     sqlMaxEntrySize, rowSeq + 1, <<"x">>, EmptyObject,
                     ttlArg, now) :
        LET out == StatementSync(closed, Db, done) IN
         /\ rows' = out.rows
         /\ rowSeq' = out.seq
         /\ ret' = out.ret
         /\ call' = [op |-> "set", key |-> rowSeq + 1, value |-> <<"x">>,
                     metadata |-> EmptyObject, ttl |-> ttlArg,
                     had |-> ~IsUndefined(getValuesQuery(rows, rowSeq + 1)),
                     before |-> rows]
  /\ UNCHANGED closed
  /\ SqlFrame

(* the set of a new key is the first call of the store *)
NextSQLTable == call = NoCall /\ SqlSetNewKey

(* A store with a finite maxCount on an empty database: every set is of a  *)
(* key that was not set before, and keys are deleted                       *)
InitSQLCount ==
  /\ NewSQLiteCacheStore
  /\ sqlMaxCount \in SqlMaxCounts \ {Infinity}
  /\ sqlMaxEntrySize = MAX_ENTRY_SIZE
  /\ conn = FirstStore(":memory:")

NextSQLCount ==
  \/ (rowSeq < MaxRowSeq /\ SqlSetNewKey)
  \/ SqlDelete
  \/ SqlSize
  \/ Tick

SpecSQLCount == InitSQLCount /\ [][NextSQLCount]_vars

(* SQLiteConnector.getInstance(path): the path of the instance returned *)
SQLiteConnector_getInstance(instance, path) ==
  IF instance = "none" THEN path ELSE instance

(* createConnection(): new DatabaseSync(this.path): the database of a file, *)
(* or a new and empty one for ':memory:'                                    *)
createConnection(files, path) ==
  IF path \in Files THEN files[path] ELSE [rows |-> {}, seq |-> 0]

(* the files once the connection of the closed store is gone: its database *)
(* is what the file holds, and nothing is left of a ':memory:' database    *)
FilesAfterClose ==
  IF conn.path \in Files THEN [conn.files EXCEPT ![conn.path] = Db]
  ELSE conn.files

(* new SQLiteCacheStore({ filename }), after the store before it was closed *)
SqlConstruct ==
  /\ kind = "sql"
  /\ closed
  /\ \E filename \in Paths :
       LET path == SQLiteConnector_getInstance(conn.instance, filename)
           db == createConnection(FilesAfterClose, path)
       IN /\ conn' = [instance |-> path, files |-> FilesAfterClose,
                      filename |-> filename, path |-> path]
          /\ rows' = db.rows
          /\ rowSeq' = db.seq
          /\ call' = [op |-> "new", filename |-> filename]
  /\ closed' = FALSE
  /\ ret' = Undefined
  /\ UNCHANGED <<kind, cache, lruMaxSize, histVars, ttlVars, memVars,
                 sqlMaxCount, sqlMaxEntrySize, remote, uuid, tracked, inval,
                 pc, bg, tracking, maxEntryOpt, quits, errs, lapsed,
                 keyPrefix>>

(* a process whose first store was constructed with any filename, that    *)
(* constructs a further store whenever it has closed the one before, and   *)
(* that keeps one key with one entry in its stores                         *)
InitSQLConnector ==
  /\ NewSQLiteCacheStore
  /\ sqlMaxCount = Infinity
  /\ sqlMaxEntrySize = 1
  /\ \E filename \in Paths : conn = FirstStore(filename)

NextSQLConnector ==
  \/ SqlConstruct
  \/ (SqlGet /\ call'.key = 1)
  \/ (SqlSet /\ call'.key = 1 /\ call'.value = <<"x">>
             /\ call'.metadata = EmptyObject)
  \/ SqlClose
  \/ (~closed /\ Tick)

SpecSQLConnector == InitSQLConnector /\ [][NextSQLConnector]_vars

SpecSQLTable == InitSQLTable /\ [][NextSQLTable]_vars

(***************************************************************************)
(* Claims about SQLiteCacheStore                                           *)
(***************************************************************************)
RowsOf(t, key) == {r \in t : r.key = key}

(* C19: SQLiteCacheStore.get(key) returns undefined when the table holds   *)
(* no row for key or the row's deleteAt is at or before the current time   *)
(* (a row whose deleteAt equals now is already a miss); otherwise it       *)
(* returns that row's value and metadata.  get neither deletes nor changes *)
(* any row, so an expired row is still in the table, and counted by size,  *)
(* after it was read as a miss.  (Stated for a store that is not closed.)   *)
C19_GetIsLazyAndReadOnly ==
  [][(kind = "sql" /\ call'.op = "get" /\ ~closed) =>
       /\ rows' = rows
       /\ SQLiteCacheStore_size(rows') = Cardinality(rows)
       /\ IF \E r \in RowsOf(rows, call'.key) : r.deleteAt > now
          THEN \E r \in RowsOf(rows, call'.key) :
                 ret' = [value |-> r.value, metadata |-> r.metadata.json]
          ELSE ret' = Undefined]_vars

(* a get at the very instant of deleteAt: a miss, and the row is still there *)
C19_Witness ==
  /\ kind = "sql"
  /\ ~closed
  /\ call.op = "get"
  /\ ret = Undefined
  /\ \E r \in RowsOf(rows, call.key) : r.deleteAt = now

(* C20: SQLiteCacheStore.set on a key that already has a row, live or      *)
(* expired, updates that row in place: the row keeps its id, the number of *)
(* rows is unchanged, nothing is pruned and no other row is touched; the   *)
(* row takes the new value, metadata, deleteAt and cachedAt, so an expired *)
(* key is readable again.  No reachable table holds two rows for one key.  *)
C20_SetUpdatesInPlace ==
  /\ [](kind = "sql" => \A key \in SqlKeys : Cardinality(RowsOf(rows, key)) <= 1)
  /\ [][(kind = "sql" /\ call'.op = "set" /\ call'.had /\ ret' = Undefined) =>
          \E old \in RowsOf(rows, call'.key) :
            /\ rows' = (rows \ {old}) \cup
                 {[id |-> old.id, key |-> old.key, value |-> call'.value,
                   metadata |-> [json |-> call'.metadata],
                   deleteAt |-> IF call'.ttl > 0 THEN now + call'.ttl
                                ELSE Infinity,
                   cachedAt |-> now]}
            /\ Cardinality(rows') = Cardinality(rows)
            /\ rowSeq' = rowSeq
            /\ SQLiteCacheStore_get(rows', call'.key, now) =
                 [value |-> call'.value, metadata |-> call'.metadata]]_vars

(* a set has just revived an expired row while the table was over maxCount *)
(* and held another row                                                    *)
C20_Witness ==
  /\ kind = "sql"
  /\ call.op = "set"
  /\ call.had
  /\ ret = Undefined
  /\ Cardinality(rows) = 2
  /\ sqlMaxCount = 1
  /\ \E r \in RowsOf(rows, call.key) :
       /\ r.id < rowSeq
       /\ r.cachedAt = now
       /\ now > 0
       /\ r.metadata.json # EmptyObject

C25_StoreUsesItsFile ==
  /\ [](kind = "sql" /\ conn.filename \in Files => conn.path = conn.filename)
  /\ [][(/\ kind = "sql"
          /\ call'.op = "new"
          /\ call'.filename \in Files
          /\ conn.filename = call'.filename) =>
           \A r \in rows : r.deleteAt > now =>
             SQLiteCacheStore_get(rows', r.key, now) =
               [value |-> r.value, metadata |-> JSON_parse(r.metadata)]]_vars

(* C21: when SQLiteCacheStore.set inserts a new key, pruning is a no-op    *)
(* (no existing row is removed, expired or not) if maxCount is unbounded   *)
(* or if the row count before the insert is at most maxCount               *)
C21_PruneNoOpWithinLimit ==
  [][(/\ kind = "sql"
      /\ ~closed
      /\ call'.op = "set"
      /\ ~call'.had
      /\ ret' = Undefined
      /\ (sqlMaxCount = Infinity \/ Cardinality(rows) <= sqlMaxCount)) =>
       rows \subseteq rows']_vars

(* the rows of a table that a statement of time `time` sees as expired *)
ExpiredRows(t, time) == {r \in t : r.deleteAt <= time}

(* an insert of a new key found the table above a finite maxCount *)
PruningRuns ==
  /\ kind = "sql"
  /\ call'.op = "set"
  /\ ~call'.had
  /\ ret' = Undefined
  /\ sqlMaxCount # Infinity
  /\ Cardinality(rows) > sqlMaxCount

Min(a, b) == IF a <= b THEN a ELSE b

C23_PruneDeletesOldest ==
  [][(PruningRuns /\ ExpiredRows(rows, now) = {}) =>
       /\ rows \ rows' # {}
       /\ \A gone \in rows \ rows', kept \in rows \cap rows' :
            gone.cachedAt <= kept.cachedAt]_vars

MaxUuid == 2          \* at most MaxUuid entries are ever written

RedisKeys == {<<"k">>}
RedisValues == {<<>>, <<"x">>, <<"x", "x">>}
RedisTtls == {Undefined, Prim(0), Prim(1)}
OtherValues == {<<"x", "x">>}     \* what another client writes
OtherTtls == {1}
RedisMaxEntryOpts == {Prim(0), Prim(1)}

DefaultMaxEntrySize == 104857600
DefaultMaxSize == 104857600
DefaultMaxCount == 1024

(* A string is the sequence of its parts: 'metadata:', 'values:', a prefix  *)
(* such as 'app:', a logical key, an id.  '' is <<>>.                      *)
occursAt(s, pattern, i) ==
  /\ i + Len(pattern) - 1 <= Len(s)
  /\ SubSeq(s, i, i + Len(pattern) - 1) = pattern

startsWith(s, pattern) == occursAt(s, pattern, 1)
includes(s, pattern) == \E i \in 1..Len(s) : occursAt(s, pattern, i)
indexOf(s, pattern) ==
  CHOOSE i \in 1..Len(s) :
    occursAt(s, pattern, i) /\ \A j \in 1..(i - 1) : ~occursAt(s, pattern, j)

addKeyPrefix(key, prefix) == IF prefix # <<>> THEN prefix \o key ELSE key

serializeMetadataKey(key, prefix) == addKeyPrefix(<<"metadata:">> \o key, prefix)

serializeValuesKey_perKey(key, prefix) == addKeyPrefix(<<"values:", "k">>, prefix)

serializeValuesKey(key, prefix) == addKeyPrefix(<<"values:">> \o key, prefix)

parseMetadataKey(key) ==
  LET pattern == <<"metadata:">>
  IN IF startsWith(key, pattern)
     THEN SubSeq(key, Len(pattern) + 1, Len(key))
     ELSE IF includes(key, pattern)
     THEN SubSeq(key, indexOf(key, pattern) + Len(pattern), Len(key))
     ELSE key

(* the test of the 'message' handler of #subscribe on the name it is given *)
isMetadataMessage(message, prefix) ==
  \/ startsWith(message, <<"metadata:">>)
  \/ startsWith(message, addKeyPrefix(<<"metadata:">>, prefix))

(* the key prefixes an instance is configured with *)
Prefixes == {<<>>, <<"app:">>, <<"metadata:">>}

Names ==
  UNION {{serializeMetadataKey(key, prefix) : key \in RedisKeys}
           \cup {serializeValuesKey(<<ToString(id)>>, prefix) : id \in 1..MaxUuid}
         : prefix \in Prefixes}

NoKeys == [name \in Names |-> Undefined]

(* the server: keyspace, names tracked for the connection #redis, and the  *)
(* invalidation messages redirected to #redisSubscribe.  Only the names   *)
(* that pass the test of the message handler are followed: a message       *)
(* naming any other key is dropped by the handler and changes nothing.     *)
Server == [remote |-> remote, tracked |-> tracked, inval |-> inval]

(* a read command on #redis: CLIENT TRACKING remembers the name *)
Touch(S, name) ==
  IF tracking /\ isMetadataMessage(name, keyPrefix)
  THEN [S EXCEPT !.tracked = @ \cup {name}]
  ELSE S

(* a write of a name: a tracked name is invalidated once and forgotten *)
Write(S, name, rec) ==
  [remote |-> [S.remote EXCEPT ![name] = rec],
   tracked |-> S.tracked \ {name},
   inval |-> IF name \in S.tracked THEN Append(S.inval, name) ELSE S.inval]

(* DEL name *)
Del(S, name) == IF IsUndefined(S.remote[name]) THEN S ELSE Write(S, name, Undefined)

(* HGETALL / GET on a name that has not expired *)
Lookup(S, name) == S.remote[name]

(* the pipeline of set: HSET, SET, EXPIRE, EXPIRE (EXPIRE 0 removes the key) *)
Pipeline(S, key, value, metadata, seconds, id, t) ==
  LET metadataKey == serializeMetadataKey(key, keyPrefix)
      valueKey == serializeValuesKey(<<ToString(id)>>, keyPrefix)
      s1 == Write(S, metadataKey,
              [metadata |-> JSON_stringify(metadata), id |-> id,
               exp |-> t + seconds])
      s2 == Write(s1, valueKey, [value |-> value, exp |-> t + seconds])
  IN IF seconds = 0 THEN Del(Del(s2, metadataKey), valueKey) ELSE s2

(* the server removes the names whose time to live is over *)
RECURSIVE Expire(_, _)
Expire(S, t) ==
  LET dead == {name \in Names :
                 ~IsUndefined(S.remote[name]) /\ S.remote[name].exp <= t}
  IN IF dead = {} THEN S
     ELSE Expire(Del(S, CHOOSE name \in dead : TRUE), t)

(***************************************************************************)
(* RedisCacheStore: one instance (with its two connections) and one other  *)
(* client writing to the same server.  The metadata document is what set   *)
(* wrote, except where the other client writes a text that is not JSON.    *)
(***************************************************************************)
Pending == [pending |-> TRUE]
Failed == [failed |-> TRUE]
Idle == [at |-> "idle"]

(* the record of the last call of the instance; after is the set or delete *)
(* that resolved just before a get (the close just before a close), failed *)
(* the connections on which a command of the call failed.  Once something  *)
(* else has happened (another client wrote, the clock moved, a message or  *)
(* an un-awaited command was handled), the record says so instead.         *)
NoAfter == [op |-> "none", value |-> <<>>, ttl |-> Undefined]

NoRedisCall ==
  [op |-> "none", key |-> <<>>, value |-> <<>>, ttl |-> Undefined,
   after |-> NoAfter, failed |-> {}]

StartCall(op, key, value, ttlArg) ==
  [op |-> op, key |-> key, value |-> value, ttl |-> ttlArg,
   after |-> IF /\ \/ (op = "get" /\ call.op \in {"set", "delete"})
                     \/ (op = "close" /\ call.op = "close")
                  /\ call.key = key
                  /\ ret = Undefined
             THEN [op |-> call.op, value |-> call.value, ttl |-> call.ttl]
             ELSE NoAfter,
   failed |-> {}]

Elsewhere(op) ==
  [op |-> op, key |-> <<>>, value |-> <<>>, ttl |-> Undefined, after |-> NoAfter,
   failed |-> {}]

(* a command sent on a closed connection fails; any other may fail *)
Fails == IF closed THEN {TRUE} ELSE BOOLEAN

SetServer(S) ==
  /\ remote' = S.remote
  /\ tracked' = S.tracked
  /\ inval' = S.inval

srvVars == <<remote, tracked, inval>>
trkVars == <<cache, memSize>>

NewRedisCacheStore ==
  /\ kind = "redis"
  /\ cache = <<>>
  /\ lruMaxSize = DefaultMaxCount
  /\ call = NoRedisCall
  /\ ret = Undefined
  /\ pristine = TRUE
  /\ insOrder = <<>>
  /\ now = 0
  /\ ttl = 0
  /\ timerOn = FALSE
  /\ timerDue = 0
  /\ written = <<>>
  /\ memSize = 0
  /\ memMaxCount = DefaultMaxCount
  /\ memMaxSize = DefaultMaxSize
  /\ maxEntryOpt \in RedisMaxEntryOpts
  /\ memMaxEntrySize = IF Truthy(maxEntryOpt) THEN maxEntryOpt.prim
                       ELSE DefaultMaxEntrySize
  /\ NoSql
  /\ closed = FALSE
  /\ remote = NoKeys
  /\ uuid = 0
  /\ tracked = {}
  /\ inval = <<>>
  /\ pc = Idle
  /\ bg = <<>>
  /\ tracking \in BOOLEAN
  /\ quits = <<0, 0>>
  /\ errs = 0
  /\ lapsed = {}

(* an instance without clientOpts.keyPrefix: #keyPrefix is '' *)
InitRedis ==
  /\ NewRedisCacheStore
  /\ keyPrefix = <<>>

RedisFrame == UNCHANGED <<kind, lruMaxSize, histVars, ttl, timerOn, timerDue,
                          written, memMaxCount, memMaxSize, memMaxEntrySize,
                          sqlVars, tracking, maxEntryOpt, keyPrefix>>

(* findByKey up to the reply of HGETALL; op is the method the caller used *)
findByKey(op, key) ==
  /\ bg = <<>>
  /\ \E fail \in Fails :
       IF fail
       THEN /\ call' = [StartCall(op, key, <<>>, Undefined) EXCEPT !.failed = {1}]
            /\ errs' = 1
            /\ ret' = Undefined
            /\ pc' = Idle
            /\ UNCHANGED srvVars
       ELSE LET metadataKey == serializeMetadataKey(key, keyPrefix)
                metadataValue == Lookup(Server, metadataKey)
            IN /\ call' = StartCall(op, key, <<>>, Undefined)
               /\ SetServer(Touch(Server, metadataKey))
               /\ errs' = 0
               /\ IF IsUndefined(metadataValue) \/ "id" \notin DOMAIN metadataValue
                  THEN /\ ret' = Undefined
                       /\ pc' = Idle
                  ELSE /\ ret' = Pending
                       /\ pc' = [at |-> "get", op |-> op, key |-> key,
                                 meta |-> metadataValue]
  /\ UNCHANGED <<trkVars, now, closed, uuid, bg, quits, lapsed>>
  /\ RedisFrame

RedisFindByKey ==
  /\ kind = "redis"
  /\ pc = Idle
  /\ \E key \in RedisKeys : findByKey("findByKey", key)

(* get(key): answered by the tracking cache, or else by findByKey *)
RedisGet ==
  /\ kind = "redis"
  /\ pc = Idle
  /\ \E key \in RedisKeys :
       LET r == MemoryCacheStore_get(cache, key)
       IN IF tracking /\ ~IsUndefined(r.ret)
          THEN /\ cache' = r.cache
               /\ ret' = [value |-> r.ret.value, metadata |-> r.ret.metadata]
               /\ call' = StartCall("get", key, <<>>, Undefined)
               /\ errs' = 0
               /\ UNCHANGED <<memSize, now, closed, srvVars, uuid, pc, bg,
                              quits, lapsed>>
               /\ RedisFrame
          ELSE findByKey("get", key)

(* the server answers the GET of the values key *)
ServeGet ==
  /\ kind = "redis"
  /\ pc.at = "get"
  /\ \E fail \in Fails :
       IF fail
       THEN /\ pc' = [at |-> "reply", op |-> pc.op, key |-> pc.key,
                      meta |-> pc.meta, value |-> Failed]
            /\ UNCHANGED srvVars
       ELSE LET valueKey == serializeValuesKey(<<ToString(pc.meta.id)>>, keyPrefix)
                found == Lookup(Server, valueKey)
            IN /\ SetServer(Touch(Server, valueKey))
               /\ pc' = [at |-> "reply", op |-> pc.op, key |-> pc.key,
                         meta |-> pc.meta,
                         value |-> IF IsUndefined(found) THEN Undefined
                                   ELSE [value |-> found.value]]
  /\ UNCHANGED <<trkVars, call, ret, now, closed, uuid, bg, quits, errs, lapsed>>
  /\ RedisFrame

(* the reply of GET reaches the instance: the rest of findByKey and get *)
GetReturn ==
  /\ kind = "redis"
  /\ pc.at = "reply"
  /\ pc' = Idle
  /\ IF pc.value = Failed
     THEN /\ errs' = errs + 1
          /\ ret' = Undefined
          /\ UNCHANGED <<trkVars, bg>>
     ELSE IF IsUndefined(pc.value) \/ Len(pc.value.value) = 0
     THEN /\ bg' = Append(bg, [name |-> serializeMetadataKey(pc.key, keyPrefix),
                                read |-> pc.meta.id])
          /\ ret' = Undefined
          /\ UNCHANGED <<trkVars, errs>>
     ELSE IF ~Parses(pc.meta.metadata)
     THEN /\ bg' = Append(bg, [delete |-> pc.key, read |-> pc.meta.id])
          /\ errs' = errs + 1
          /\ ret' = Undefined
          /\ UNCHANGED trkVars
     ELSE LET cacheEntry == [value |-> pc.value.value,
                             metadata |-> JSON_parse(pc.meta.metadata)]
              r == MemoryCacheStore_set(cache, memSize, memMaxCount,
                     memMaxSize, memMaxEntrySize, pc.key, cacheEntry.value,
                     cacheEntry.metadata)
          IN /\ IF pc.op = "get" /\ tracking
                THEN /\ cache' = r.cache
                     /\ memSize' = r.size
                     /\ ret' = IF r.ret = Undefined THEN cacheEntry ELSE r.ret
                ELSE /\ ret' = cacheEntry
                     /\ UNCHANGED trkVars
             /\ UNCHANGED <<bg, errs>>
  /\ UNCHANGED <<call, now, closed, srvVars, uuid, quits, lapsed>>
  /\ RedisFrame

ServeBg_keeps ==
  /\ kind = "redis"
  /\ bg # <<>>
  /\ "name" \in DOMAIN Head(bg)
  /\ bg' = Tail(bg)
  /\ call' = Elsewhere("del")
  /\ UNCHANGED <<srvVars, errs, trkVars, ret, now, closed, uuid, pc, quits,
                 lapsed>>
  /\ RedisFrame

(* the server runs the un-awaited DEL of a metadata key; read is the id of  *)
(* the metadata record findByKey had read when it sent the DEL             *)
ServeBg ==
  /\ kind = "redis"
  /\ bg # <<>>
  /\ "name" \in DOMAIN Head(bg)
  /\ bg' = Tail(bg)
  /\ \E fail \in Fails :
       IF fail
       THEN /\ errs' = errs + 1
            /\ UNCHANGED srvVars
       ELSE /\ SetServer(Del(Server, Head(bg).name))
            /\ UNCHANGED errs
  /\ call' = Elsewhere("del")
  /\ UNCHANGED <<trkVars, ret, now, closed, uuid, pc, quits, lapsed>>
  /\ RedisFrame

(* the un-awaited delete(key) of findByKey: the server answers its HGETALL *)
(* and delete goes on to the tracking cache and its two DEL                *)
ServeBgHgetall ==
  /\ kind = "redis"
  /\ bg # <<>>
  /\ "delete" \in DOMAIN Head(bg)
  /\ \E fail \in Fails :
       IF fail
       THEN /\ errs' = errs + 1
            /\ bg' = Tail(bg)
            /\ UNCHANGED <<srvVars, trkVars>>
       ELSE LET key == Head(bg).delete
                metadataKey == serializeMetadataKey(key, keyPrefix)
                metadata == Lookup(Server, metadataKey)
                r == MemoryCacheStore_delete(cache, memSize, key)
            IN /\ SetServer(Touch(Server, metadataKey))
               /\ UNCHANGED errs
               /\ IF IsUndefined(metadata) \/ "id" \notin DOMAIN metadata
                  THEN /\ bg' = Tail(bg)
                       /\ UNCHANGED trkVars
                  ELSE /\ bg' = <<[dels |-> metadata.id, key |-> key,
                                   read |-> Head(bg).read]>> \o Tail(bg)
                       /\ IF tracking
                          THEN cache' = r.cache /\ memSize' = r.size
                          ELSE UNCHANGED trkVars
  /\ call' = Elsewhere("hgetall")
  /\ UNCHANGED <<ret, now, closed, uuid, pc, quits, lapsed>>
  /\ RedisFrame

(* the server runs the two DEL of the un-awaited delete(key) *)
ServeBgDels ==
  /\ kind = "redis"
  /\ bg # <<>>
  /\ "dels" \in DOMAIN Head(bg)
  /\ bg' = Tail(bg)
  /\ \E fail \in Fails :
       IF fail
       THEN /\ errs' = errs + 1
            /\ UNCHANGED srvVars
       ELSE /\ SetServer(Del(Del(Server,
                   serializeValuesKey(<<ToString(Head(bg).dels)>>, keyPrefix)),
                   serializeMetadataKey(Head(bg).key, keyPrefix)))
            /\ UNCHANGED errs
  /\ call' = Elsewhere("dels")
  /\ UNCHANGED <<trkVars, ret, now, closed, uuid, pc, quits, lapsed>>
  /\ RedisFrame

(* set(key, value, metadata, ttl) *)
RedisSet ==
  /\ kind = "redis"
  /\ pc = Idle
  /\ \E key \in RedisKeys, value \in RedisValues, ttlArg \in RedisTtls :
       /\ call' = StartCall("set", key, value, ttlArg)
       /\ errs' = 0
       /\ IF IsUndefined(ttlArg)
          THEN /\ ret' = Thrown("TypeError")
               /\ UNCHANGED <<srvVars, uuid, lapsed>>
          ELSE IF byteLength(value) > memMaxEntrySize
          THEN /\ ret' = Thrown("Error")
               /\ UNCHANGED <<srvVars, uuid, lapsed>>
          ELSE /\ bg = <<>>
               /\ uuid < MaxUuid
               /\ uuid' = uuid + 1
               /\ \E fail \in Fails :
                    IF fail
                    THEN /\ ret' = Thrown("transport")
                         /\ UNCHANGED <<srvVars, lapsed>>
                    ELSE /\ SetServer(Pipeline(Server, key, value, EmptyObject,
                                               ttlArg.prim, uuid + 1, now))
                         /\ ret' = Undefined
                         /\ lapsed' = IF ttlArg.prim = 0 THEN lapsed \cup {key}
                                      ELSE lapsed \ {key}
  /\ UNCHANGED <<trkVars, now, closed, pc, bg, quits>>
  /\ RedisFrame

(* delete(key) up to the reply of HGETALL and the two DEL it then sends *)
RedisDelete ==
  /\ kind = "redis"
  /\ pc = Idle
  /\ bg = <<>>
  /\ \E key \in RedisKeys :
       /\ call' = StartCall("delete", key, <<>>, Undefined)
       /\ errs' = 0
       /\ \E fail \in Fails :
            IF fail
            THEN /\ ret' = Thrown("transport")
                 /\ UNCHANGED <<srvVars, trkVars, pc>>
            ELSE LET metadataKey == serializeMetadataKey(key, keyPrefix)
                     metadata == Lookup(Server, metadataKey)
                     r == MemoryCacheStore_delete(cache, memSize, key)
                 IN /\ SetServer(Touch(Server, metadataKey))
                    /\ IF IsUndefined(metadata) \/ "id" \notin DOMAIN metadata
                       THEN /\ ret' = Undefined
                            /\ UNCHANGED <<trkVars, pc>>
                       ELSE /\ ret' = Pending
                            /\ pc' = [at |-> "del", op |-> "delete",
                                      key |-> key, meta |-> metadata]
                            /\ IF tracking
                               THEN cache' = r.cache /\ memSize' = r.size
                               ELSE UNCHANGED trkVars
  /\ UNCHANGED <<now, closed, uuid, bg, quits, lapsed>>
  /\ RedisFrame

(* the server runs the two DEL of delete, and delete resolves *)
ServeDel ==
  /\ kind = "redis"
  /\ pc.at = "del"
  /\ pc' = Idle
  /\ \E fail \in Fails :
       IF fail
       THEN /\ ret' = Thrown("transport")
            /\ UNCHANGED srvVars
       ELSE /\ SetServer(Del(Del(Server,
                   serializeValuesKey(<<ToString(pc.meta.id)>>, keyPrefix)),
                   serializeMetadataKey(pc.key, keyPrefix)))
            /\ ret' = Undefined
  /\ UNCHANGED <<trkVars, call, now, closed, uuid, bg, quits, errs, lapsed>>
  /\ RedisFrame

(* the connections of the instance: 1 is #redis, 2 is #redisSubscribe *)
Connections == IF tracking THEN {1, 2} ELSE {1}

RedisCacheStore_close_noFlag(isClosed, conns, failed) ==
  [closed |-> TRUE, quit |-> conns,
   errs |-> IF failed # {} THEN 1 ELSE 0, ret |-> Undefined]

(* close(), where the quit of the connections in failed is going to fail:  *)
(* the new #closed, the connections it sends quit on, the number of calls  *)
(* of #errorCallback, and the outcome                                      *)
RedisCacheStore_close(isClosed, conns, failed) ==
  IF isClosed
  THEN [closed |-> TRUE, quit |-> {}, errs |-> 0, ret |-> Undefined]
  ELSE [closed |-> TRUE, quit |-> conns,
        errs |-> IF failed # {} THEN 1 ELSE 0, ret |-> Undefined]

RedisClose ==
  /\ kind = "redis"
  /\ pc = Idle
  /\ \E failed \in SUBSET Connections :
       LET r == RedisCacheStore_close(closed, Connections, failed)
       IN /\ call' = [StartCall("close", <<>>, <<>>, Undefined)
                        EXCEPT !.failed = failed \cap r.quit]
          /\ closed' = r.closed
          /\ quits' = [c \in 1..2 |-> quits[c] + (IF c \in r.quit THEN 1 ELSE 0)]
          /\ errs' = r.errs
          /\ ret' = r.ret
  /\ UNCHANGED <<trkVars, now, srvVars, uuid, pc, bg, lapsed>>
  /\ RedisFrame

(* #subscribe: the 'message' handler of #redisSubscribe takes one message *)
Deliver ==
  /\ kind = "redis"
  /\ ~closed
  /\ inval # <<>>
  /\ inval' = Tail(inval)
  /\ LET message == Head(inval)
         r == MemoryCacheStore_delete(cache, memSize, parseMetadataKey(message))
     IN IF isMetadataMessage(message, keyPrefix) /\ tracking
        THEN cache' = r.cache /\ memSize' = r.size
        ELSE UNCHANGED trkVars
  /\ call' = Elsewhere("message")
  /\ UNCHANGED <<ret, now, closed, remote, tracked, uuid, pc, bg, quits, errs,
                 lapsed>>
  /\ RedisFrame

(* Other clients and the clock are followed until the instance is closed:  *)
(* from then on every command of the instance fails whatever they do.      *)

(* another client of the same server sets a key *)
OtherClientSet ==
  /\ kind = "redis"
  /\ ~closed
  /\ uuid < MaxUuid
  /\ uuid' = uuid + 1
  /\ \E key \in RedisKeys, value \in OtherValues, seconds \in OtherTtls :
       /\ SetServer(Pipeline(Server, key, value, EmptyObject, seconds,
                             uuid + 1, now))
       /\ lapsed' = lapsed \ {key}
  /\ call' = Elsewhere("other set")
  /\ UNCHANGED <<trkVars, ret, now, closed, pc, bg, quits, errs>>
  /\ RedisFrame

(* another client sets a key to a value with a metadata object that is     *)
(* different for every value, so that a pair tells which set wrote it      *)
PairValues == {<<"x">>, <<"x", "x">>}
Tagged(value) == [object |-> value]

OtherClientSetTagged ==
  /\ kind = "redis"
  /\ ~closed
  /\ uuid < MaxUuid
  /\ uuid' = uuid + 1
  /\ \E key \in RedisKeys, value \in PairValues, seconds \in OtherTtls :
       /\ SetServer(Pipeline(Server, key, value, Tagged(value), seconds,
                             uuid + 1, now))
       /\ lapsed' = lapsed \ {key}
  /\ call' = Elsewhere("other set")
  /\ UNCHANGED <<trkVars, ret, now, closed, pc, bg, quits, errs>>
  /\ RedisFrame

(* another client writes, without a time to live, a metadata hash whose    *)
(* document is not JSON and the value it refers to                         *)
OtherClientCorrupts ==
  /\ kind = "redis"
  /\ ~closed
  /\ uuid < MaxUuid
  /\ uuid' = uuid + 1
  /\ \E key \in RedisKeys :
       LET s1 == Write(Server, serializeMetadataKey(key, keyPrefix),
                   [metadata |-> InvalidJson, id |-> uuid + 1,
                    exp |-> Infinity])
       IN /\ SetServer(Write(s1, serializeValuesKey(<<ToString(uuid + 1)>>, keyPrefix),
                         [value |-> <<"x">>, exp |-> Infinity]))
          /\ lapsed' = lapsed \ {key}
  /\ call' = Elsewhere("other hset")
  /\ UNCHANGED <<trkVars, ret, now, closed, pc, bg, quits, errs>>
  /\ RedisFrame

(* another client of the same server deletes a key it finds *)
OtherClientDelete ==
  /\ kind = "redis"
  /\ ~closed
  /\ \E key \in RedisKeys :
       LET metadata == Lookup(Server, serializeMetadataKey(key, keyPrefix))
       IN /\ ~IsUndefined(metadata)
          /\ SetServer(Del(Del(Server,
                 serializeValuesKey(<<ToString(metadata.id)>>, keyPrefix)),
                 serializeMetadataKey(key, keyPrefix)))
  /\ call' = Elsewhere("other delete")
  /\ UNCHANGED <<trkVars, ret, now, closed, uuid, pc, bg, quits, errs, lapsed>>
  /\ RedisFrame

(* a second passes: the server drops the keys whose time to live is over *)
RedisTick ==
  /\ kind = "redis"
  /\ ~closed
  /\ now < MaxTime
  /\ now' = now + 1
  /\ SetServer(Expire(Server, now + 1))
  /\ lapsed' = lapsed \cup
       {key \in RedisKeys :
          LET metadata == Lookup(Server, serializeMetadataKey(key, keyPrefix))
          IN ~IsUndefined(metadata) /\ metadata.exp <= now + 1}
  /\ call' = Elsewhere("tick")
  /\ UNCHANGED <<trkVars, ret, closed, uuid, pc, bg, quits, errs>>
  /\ RedisFrame

NextRedis ==
  \/ RedisGet \/ RedisFindByKey \/ ServeGet \/ GetReturn \/ ServeBg
  \/ RedisSet \/ RedisDelete \/ ServeDel \/ RedisClose
  \/ Deliver \/ OtherClientSet \/ OtherClientDelete \/ RedisTick

SpecRedis == InitRedis /\ [][NextRedis]_vars

(* findByKey alone against the other client; the reply to a command that   *)
(* was sent always comes, so the un-awaited DEL is eventually served       *)
NextRedisStale ==
  \/ RedisFindByKey \/ ServeGet \/ GetReturn \/ ServeBg
  \/ OtherClientSet \/ OtherClientDelete \/ RedisTick

SpecRedisStale == InitRedis /\ [][NextRedisStale]_vars /\ WF_bg(ServeBg)

(* the reads of the instance against sets that write distinguishable pairs *)
NextRedisPair ==
  \/ RedisGet \/ RedisFindByKey \/ ServeGet \/ GetReturn \/ ServeBg
  \/ Deliver \/ OtherClientSetTagged \/ OtherClientDelete \/ RedisTick

SpecRedisPair == InitRedis /\ [][NextRedisPair]_vars

(* the reads of the instance when a metadata document may be unparsable *)
NextRedisCorrupt ==
  \/ RedisGet \/ RedisFindByKey \/ ServeGet \/ GetReturn
  \/ ServeBg \/ ServeBgHgetall \/ ServeBgDels \/ Deliver
  \/ OtherClientCorrupts \/ OtherClientSet \/ RedisTick

SpecRedisCorrupt == InitRedis /\ [][NextRedisCorrupt]_vars

(* an instance with tracking and any of the key prefixes, its get, and the *)
(* invalidation messages caused by the writes of other clients             *)
InitRedisPrefix ==
  /\ NewRedisCacheStore
  /\ tracking
  /\ keyPrefix \in Prefixes

NextRedisPrefix ==
  \/ RedisGet \/ ServeGet \/ GetReturn \/ ServeBg \/ Deliver
  \/ OtherClientSet \/ OtherClientDelete \/ RedisTick

SpecRedisPrefix == InitRedisPrefix /\ [][NextRedisPrefix]_vars

(***************************************************************************)
(* Claims about RedisCacheStore                                            *)
(***************************************************************************)
Rejected(r) == "throws" \in DOMAIN r
Hit(value) == [value |-> value, metadata |-> EmptyObject]
Cached(key) == MapGet(cache, key)

(* C11: in MemoryCacheStore, SQLiteCacheStore and RedisCacheStore a set    *)
(* whose value is longer than the configured maxEntrySize throws (rejects) *)
(* and changes nothing: not the entries, their order or the byte size of   *)
(* the memory store, not the rows of the SQLite store (no pruning), and no *)
(* key of the Redis server nor the tracking cache.                         *)
C11_OversizeSetRejected ==
  [][(call'.op = "set" /\ kind \in {"mem", "sql", "redis"}) =>
       LET maxEntrySize == IF kind = "mem" THEN memMaxEntrySize
                           ELSE IF kind = "sql" THEN sqlMaxEntrySize
                           ELSE maxEntryOpt.prim
       IN byteLength(call'.value) > maxEntrySize =>
            /\ Rejected(ret')
            /\ UNCHANGED <<cache, memSize, rows, rowSeq, remote, tracked,
                           inval, bg>>]_vars

(* C12: when set(key, value, metadata, ttl) has resolved and get(key) on   *)
(* the same instance follows at once, get returns the value and metadata   *)
(* just written, whatever happened before, also when the tracking cache    *)
(* holds an earlier value of the key.  Stated for a ttl of at least one    *)
(* second, a non-empty value and commands that do not fail.                *)
C12_GetAfterSetReturnsWritten ==
  ( /\ kind = "redis"
    /\ pc = Idle
    /\ call.op = "get"
    /\ call.after.op = "set"
    /\ call.after.ttl.prim >= 1
    /\ call.after.value # <<>>
    /\ errs = 0 )
  => ret = Hit(call.after.value)

(* C13: once another client has replaced or deleted a key the instance     *)
(* holds in its tracking cache, the instance stops returning the old value *)
(* after the invalidation was delivered, however its own get in flight     *)
(* interleaves with that write.  Hence when nothing is in flight any more  *)
(* (no call, no invalidation message, no pending DEL), an entry left in    *)
(* the tracking cache is the entry the server holds.                       *)
C13_SettledCacheIsCurrent ==
  ( /\ kind = "redis"
    /\ tracking
    /\ ~closed
    /\ pc = Idle
    /\ inval = <<>>
    /\ bg = <<>> )
  => \A key \in RedisKeys :
       MapHas(cache, key) =>
         LET metadata == Lookup(Server, serializeMetadataKey(key, keyPrefix))
         IN /\ ~IsUndefined(metadata)
            /\ ~IsUndefined(Lookup(Server, serializeValuesKey(<<ToString(metadata.id)>>, keyPrefix)))
            /\ Lookup(Server, serializeValuesKey(<<ToString(metadata.id)>>, keyPrefix)).value
                 = Cached(key).value

(* C14: once the ttl given to set has run out on the server, get(key) on   *)
(* the instance is a miss and the metadata key is gone from the server,    *)
(* with or without tracking, whether or not the key was read before.       *)
C14_MissOnceTtlElapsed ==
  ( /\ kind = "redis"
    /\ pc = Idle
    /\ call.op = "get"
    /\ call.key \in lapsed )
  => /\ ret = Undefined
     /\ IsUndefined(Lookup(Server, serializeMetadataKey(call.key, keyPrefix)))

(* C15: when delete(key) has resolved and no client has set the key since  *)
(* the delete started, the next get(key) on the instance is a miss,        *)
(* whether or not the key was in the tracking cache and whether or not the *)
(* metadata key still existed when delete ran.                             *)
C15_MissAfterDelete ==
  ( /\ kind = "redis"
    /\ pc = Idle
    /\ call.op = "get"
    /\ call.after.op = "delete" )
  => ret = Undefined

(* C16: set(key, value, metadata) without a ttl resolves and stores an     *)
(* entry that does not expire.                                             *)
C16_SetWithoutTtlStores ==
  [][( /\ kind = "redis"
       /\ call'.op = "set"
       /\ IsUndefined(call'.ttl)
       /\ byteLength(call'.value) <= memMaxEntrySize
       /\ ~closed )
     => ~Rejected(ret')]_vars

(* C17: findByKey, and get which is built on it, never rejects: a failure  *)
(* of either remote read is handed to the error callback exactly once, the *)
(* call resolves to a miss and the tracking cache is left as it was.       *)
C17_ReadsNeverReject ==
  [][( /\ kind = "redis"
       /\ pc' = Idle
       /\ \/ (pc = Idle /\ call'.op \in {"get", "findByKey"})
          \/ pc.at = "reply" )
     => /\ ~Rejected(ret')
        /\ ((pc = Idle /\ call'.failed # {})
             => (errs' = 1 /\ ret' = Undefined /\ cache' = cache))
        /\ ((pc # Idle /\ pc.value = Failed)
             => (errs = 0 /\ errs' = 1 /\ ret' = Undefined /\ cache' = cache))]_vars

(* C18: close() is idempotent: quit is sent at most once on each of the    *)
(* two connections, a failing quit is handed to the error callback and     *)
(* close never rejects, and every call after the first returns at once     *)
(* without sending anything.                                               *)
C18_CloseIsIdempotent ==
  /\ [](kind = "redis" => (quits[1] <= 1 /\ quits[2] <= 1))
  /\ [][(kind = "redis" /\ pc = Idle /\ call'.op = "close") =>
          /\ ~Rejected(ret')
          /\ closed'
          /\ (call'.failed # {} => errs' = 1)
          /\ (closed => (quits' = quits /\ errs' = 0 /\ call'.failed = {}))
          /\ (~closed => quits' = <<1, IF tracking THEN 1 ELSE 0>>)
          /\ UNCHANGED <<remote, tracked, inval, cache, memSize, bg>>]_vars

(* a second close has just returned; both connections were quit once *)
C18_Witness ==
  /\ kind = "redis"
  /\ call.op = "close"
  /\ call.after.op = "close"
  /\ ret = Undefined
  /\ closed
  /\ quits = <<1, 1>>

(* C31: get with tracking enabled: a tracking-cache hit is returned        *)
(* without any remote operation; after a tracking miss and a remote hit    *)
(* the tracking cache holds exactly the value and metadata get returns     *)
(* when it resolves; after a remote miss the tracking cache is unchanged.  *)
(* With tracking disabled every get performs the remote lookup.            *)
C31_TrackingGet ==
  [][kind = "redis" =>
       /\ ( /\ pc = Idle
            /\ call'.op = "get"
            /\ tracking
            /\ MapHas(cache, call'.key) )
          => /\ UNCHANGED <<remote, tracked, inval, bg>>
             /\ pc' = Idle
             /\ call'.failed = {}
             /\ ret' = [value |-> Cached(call'.key).value,
                        metadata |-> Cached(call'.key).metadata]
       /\ ( /\ pc.at = "reply"
            /\ pc' = Idle
            /\ pc.op = "get"
            /\ tracking
            /\ pc.value # Failed
            /\ ~IsUndefined(pc.value)
            /\ pc.value.value # <<>> )
          => /\ ~Rejected(ret')
             /\ MapHas(cache', pc.key)
             /\ ret' = [value |-> MapGet(cache', pc.key).value,
                        metadata |-> MapGet(cache', pc.key).metadata]
       /\ ( /\ pc' = Idle
            /\ \/ (pc = Idle /\ call'.op = "get" /\ ~MapHas(cache, call'.key))
               \/ (pc.at = "reply" /\ pc.op = "get")
            /\ ret' = Undefined )
          => UNCHANGED <<cache, memSize>>
       /\ (pc = Idle /\ call'.op = "get" /\ ~tracking)
          => \/ call'.failed = {1}
             \/ ret' = Pending
             \/ IsUndefined(Lookup(Server, serializeMetadataKey(call'.key, keyPrefix)))]_vars

C36_CleanupKeepsLiveEntry ==
  [][(kind = "redis" /\ bg # <<>> /\ bg' = Tail(bg))
     => LET metadata == remote[Head(bg).name]
        IN (~IsUndefined(metadata) /\ metadata.id > Head(bg).read)
             => remote'[Head(bg).name] = metadata]_vars

(* C37: every {value, metadata} pair that get or findByKey returns, and    *)
(* every pair the tracking cache holds, was written by one single set: the *)
(* value of one write never comes with the metadata of another write of    *)
(* the key, however the reads interleave with the sets of other clients.   *)
C37_PairFromOneSet ==
  kind = "redis" =>
    /\ ("value" \in DOMAIN ret => ret.metadata = Tagged(ret.value))
    /\ \A i \in 1..Len(cache) : cache[i].v.metadata = Tagged(cache[i].v.value)

(* a read has returned the pair of the first set although the second set   *)
(* was served between its two remote reads                                 *)
C37_Witness ==
  /\ kind = "redis"
  /\ pc = Idle
  /\ call.op = "other set"
  /\ ret = [value |-> <<"x">>, metadata |-> Tagged(<<"x">>)]
  /\ ~IsUndefined(remote[serializeMetadataKey(<<"k">>, keyPrefix)])
  /\ remote[serializeMetadataKey(<<"k">>, keyPrefix)].id = 2
  /\ remote[serializeValuesKey(<<ToString(2)>>, keyPrefix)].value = <<"x", "x">>

(* C34: when findByKey has read a metadata record whose document cannot be *)
(* parsed, it resolves to a miss and hands the parse error to the error    *)
(* callback; once its un-awaited cleanup has run without a failure, the    *)
(* metadata key and the value key that record referred to are both gone    *)
(* and the key is not in the tracking cache; a failure of the cleanup is   *)
(* handed to the error callback and the miss stands.                       *)
C34_CorruptMetadataCleaned ==
  [][kind = "redis" =>
       /\ ( /\ pc.at = "reply"
            /\ pc' = Idle
            /\ pc.value # Failed
            /\ ~IsUndefined(pc.value)
            /\ pc.value.value # <<>>
            /\ ~Parses(pc.meta.metadata) )
          => /\ ret' = Undefined
             /\ errs' = errs + 1
             /\ bg' # bg
       /\ (bg # <<>> /\ "read" \in DOMAIN Head(bg) /\ "name" \notin DOMAIN Head(bg)
             /\ bg' = Tail(bg))
          => /\ UNCHANGED <<ret, pc>>
             /\ \/ errs' = errs + 1
                \/ /\ errs' = errs
                   /\ IsUndefined(remote'[serializeMetadataKey(<<"k">>, keyPrefix)])
                   /\ IsUndefined(remote'[serializeValuesKey(<<ToString(Head(bg).read)>>, keyPrefix)])
                   /\ ~MapHas(cache', <<"k">>)]_vars

(* C32: for every logical key and every configured key prefix,             *)
(* parseMetadataKey gives back the key from its serialized metadata key,   *)
(* the invalidation message naming that metadata key evicts exactly this   *)
(* key from the tracking cache, and a message naming a key that is not a   *)
(* metadata key (a values key) leaves the tracking cache unchanged.        *)
C32_InvalidationEvictsKey ==
  /\ [](kind = "redis" =>
          \A key \in RedisKeys :
            parseMetadataKey(serializeMetadataKey(key, keyPrefix)) = key)
  /\ [][(kind = "redis" /\ tracking /\ inval # <<>> /\ inval' = Tail(inval))
        => LET message == Head(inval)
           IN /\ \A key \in RedisKeys :
                   message = serializeMetadataKey(key, keyPrefix)
                     => cache' = MapDelete(cache, key)
              /\ (\A key \in RedisKeys :
                    message # serializeMetadataKey(key, keyPrefix))
                   => cache' = cache]_vars

====
